---- MODULE Spec2Model ----
(***************************************************************************)
(* Model of tool/microkit/src/sel4.rs: the architecture configuration, the *)
(* object type catalogue, and the invocation encoder that turns            *)
(* InvocationArgs values into the byte stream replayed by the monitor.     *)
(*                                                                         *)
(* A u64 (and a u32) is modelled as the set of its one-bit positions, so   *)
(* that shifts, ORs and range checks are exact for the whole 64-bit range. *)
(* A byte of the output buffer is an integer 0..255.                       *)
(***************************************************************************)
EXTENDS Integers, Sequences, FiniteSets, TLC

VARIABLES
    config,   \* the Config of this build (the one handed to Invocation::new)
    inv,      \* Option<Invocation>: <<>> before construction, <<invocation>> after
    data,     \* the caller-owned output buffer, a sequence of bytes
    panic,    \* "none", or the message of the panic that ended the process
    log,      \* history: the add_raw_invocation calls that returned
    last      \* history: the last call made, its inputs and its result

vars == <<config, inv, data, panic, log, last>>

(***************************************************************************)
(* Bounds of the model.                                                    *)
(***************************************************************************)
\* add_raw_invocation calls made on one Invocation value
MaxEncodes == 1
\* Invocation values encoded one after the other into one buffer
MaxCalls == 2

(***************************************************************************)
(* Option and panicking results.                                           *)
(***************************************************************************)
None == <<>>
Some(x) == <<x>>
Ok(v) == [panic |-> "none", val |-> <<v>>]
Panic(msg) == [panic |-> msg, val |-> <<>>]
Unwrap(r) == r.val[1]

(***************************************************************************)
(* 64-bit words as sets of bit positions.                                  *)
(***************************************************************************)
RECURSIVE Pow2(_)
Pow2(n) == IF n = 0 THEN 1 ELSE 2 * Pow2(n - 1)

RECURSIVE BitsFrom(_, _)
BitsFrom(n, k) ==
    IF n = 0 THEN {}
    ELSE (IF n % 2 = 1 THEN {k} ELSE {}) \cup BitsFrom(n \div 2, k + 1)

\* the u64 whose value is the (small) natural number n
U64(n) == BitsFrom(n, 0)

\* w << k on u64: bits shifted past bit 63 are dropped
Shl(w, k) == {b + k : b \in {x \in w : x + k <= 63}}
\* w >> k
Shr(w, k) == {b - k : b \in {x \in w : x >= k}}
\* a | b
BitOr(a, b) == a \cup b
\* w < (1 << k)
LtPow2(w, k) == \A b \in w : b < k
\* w % (1 << k)
ModPow2(w, k) == {b \in w : b < k}
\* w - 1, for w > 0: the lowest one bit is cleared and the bits below it are set
Dec(w) ==
    LET low == CHOOSE b \in w : \A c \in w : b <= c
    IN  (w \ {low}) \cup {b \in 0..63 : b < low}
\* a < b on u64: the highest bit in which the two words differ is set in b
Less(a, b) ==
    LET diff == (a \ b) \cup (b \ a)
    IN  diff # {} /\ (CHOOSE h \in diff : \A x \in diff : x <= h) \in b
\* a.wrapping_sub(b): bit k of a - b mod 2^64 is a_k xor b_k xor the borrow
\* into bit k, and there is a borrow exactly when a mod 2^k < b mod 2^k
WrappingSub(a, b) ==
    {k \in 0..63 :
        ((k \in a) # (k \in b)) # Less(ModPow2(a, k), ModPow2(b, k))}
\* the value of a word below 2^16, as a number
RECURSIVE SumBits(_)
SumBits(w) ==
    IF w = {} THEN 0
    ELSE LET b == CHOOSE x \in w : TRUE IN Pow2(b) + SumBits(w \ {b})

\* u64::to_le_bytes: byte i (0 first) holds bits 8i .. 8i+7
ByteOf(w, i) == SumBits({b \in 0..7 : (8 * i + b) \in w})
to_le_bytes(w) == [i \in 1..8 |-> ByteOf(w, i - 1)]
\* the inverse reading, used to look at what was written
from_le_bytes(bs) == UNION {{8 * (i - 1) + b : b \in U64(bs[i])} : i \in 1..8}

(***************************************************************************)
(* Architecture configuration (struct Config, enum Arch).                  *)
(***************************************************************************)
Arch == {"Aarch64", "Riscv64", "X86_64"}

\* a user_top that keeps the unaligned top of the x86 user range
user_top_x86_unrounded(cfg) ==
    CASE cfg.arch = "Aarch64" ->
           IF cfg.hypervisor
           THEN IF cfg.arm_pa_size_bits = None
                THEN Panic("called Option::unwrap() on a None value")
                ELSE CASE cfg.arm_pa_size_bits[1] = 40 -> Ok({40})
                       [] cfg.arm_pa_size_bits[1] = 44 -> Ok({44})
                       [] OTHER -> Panic("Unknown ARM physical address size bits")
           ELSE Ok({47})
      [] cfg.arch = "Riscv64" -> Ok((12..37))
      [] cfg.arch = "X86_64" -> Ok((0..46))

user_top(cfg) ==
    CASE cfg.arch = "Aarch64" ->
           IF cfg.hypervisor
           THEN IF cfg.arm_pa_size_bits = None
                THEN Panic("called Option::unwrap() on a None value")
                ELSE CASE cfg.arm_pa_size_bits[1] = 40 -> Ok({40})
                       [] cfg.arm_pa_size_bits[1] = 44 -> Ok({44})
                       [] OTHER -> Panic("Unknown ARM physical address size bits")
           ELSE Ok({47})
      [] cfg.arch = "Riscv64" -> Ok((12..37))
      [] cfg.arch = "X86_64" -> Ok((12..46))

pd_stack_top(cfg) == user_top(cfg)

\* self.pd_stack_top() - stack_size on u64: when stack_size is the larger,
\* a build with overflow checks panics and a build without them wraps
pd_stack_bottom(cfg, stack_size, overflow_checks) ==
    LET top == pd_stack_top(cfg)
    IN  IF top.panic # "none" THEN top
        ELSE IF Less(Unwrap(top), stack_size) /\ overflow_checks
        THEN Panic("attempt to subtract with overflow")
        ELSE Ok(WrappingSub(Unwrap(top), stack_size))

pd_map_max_vaddr(cfg, stack_size, overflow_checks) ==
    LET top == pd_stack_top(cfg)
        user == user_top(cfg)
    IN  IF top.panic # "none" THEN top
        ELSE IF user.panic # "none" THEN user
        ELSE IF Unwrap(top) # Unwrap(user)
        THEN Panic("assertion failed: self.pd_stack_top() == self.user_top()")
        ELSE pd_stack_bottom(cfg, stack_size, overflow_checks)

\* [0x1000, 0x200_000] on every architecture
page_sizes(cfg) ==
    CASE cfg.arch \in {"Aarch64", "Riscv64", "X86_64"} -> <<{12}, {21}>>

\* size % page_size = 0 on u64, for a page size that is a power of two
Aligned(size, page_size) ==
    ModPow2(size, CHOOSE k \in page_size : TRUE) = {}

\* a scan that goes from the smallest page size to the largest
optimal_page_size_smallest_first(cfg, size) ==
    LET sizes == page_sizes(cfg)
    IN  IF Aligned(size, sizes[1]) THEN Ok(sizes[1])
        ELSE IF Aligned(size, sizes[2]) THEN Ok(sizes[2])
        ELSE Panic("Internal error: size is not aligned to minimum page size")

\* for i in (0..page_sizes.len()).rev(): the first page size, from the last
\* to the first, that divides size
optimal_page_size(cfg, size) ==
    LET sizes == page_sizes(cfg)
    IN  IF Aligned(size, sizes[2]) THEN Ok(sizes[2])
        ELSE IF Aligned(size, sizes[1]) THEN Ok(sizes[1])
        ELSE Panic("Internal error: size is not aligned to minimum page size")

(***************************************************************************)
(* Object type catalogue (enum ObjectType).                                *)
(***************************************************************************)
ObjectType == {
    "Untyped", "Tcb", "Endpoint", "Notification", "CNode", "SchedContext",
    "Reply", "HugePage", "VSpace", "SmallPage", "LargePage", "PageTable",
    "Vcpu", "PageDirectory", "PdPt", "Pml4", "IOPageTable", "EptPml4",
    "EptPdPt", "EptPageDirectory", "EptPageTable"}

\* a Tcb arm whose x86 threshold is one byte too high
tcb_size_bits_above_832(cfg) ==
    CASE cfg.arch = "Aarch64" -> Ok(Some(11))
      [] cfg.arch = "Riscv64" ->
           IF cfg.fpu THEN Ok(Some(11)) ELSE Ok(Some(10))
      [] cfg.arch = "X86_64" ->
           IF cfg.x86_xsave_size # None
           THEN IF cfg.x86_xsave_size[1] > 832
                THEN Ok(Some(12))
                ELSE Ok(Some(11))
           ELSE Ok(Some(11))

\* the ObjectType::Tcb arm
tcb_size_bits(cfg) ==
    CASE cfg.arch = "Aarch64" -> Ok(Some(11))
      [] cfg.arch = "Riscv64" ->
           IF cfg.fpu THEN Ok(Some(11)) ELSE Ok(Some(10))
      [] cfg.arch = "X86_64" ->
           IF cfg.x86_xsave_size # None
           THEN IF cfg.x86_xsave_size[1] >= 832
                THEN Ok(Some(12))
                ELSE Ok(Some(11))
           ELSE Ok(Some(11))

\* a VSpace arm with the sizes of the two widths exchanged
vspace_size_bits_widths_exchanged(cfg) ==
    CASE cfg.arch = "Aarch64" ->
           IF cfg.hypervisor
           THEN IF cfg.arm_pa_size_bits = None
                THEN Panic("called Option::unwrap() on a None value")
                ELSE CASE cfg.arm_pa_size_bits[1] = 40 -> Ok(Some(12))
                       [] cfg.arm_pa_size_bits[1] = 44 -> Ok(Some(13))
                       [] OTHER -> Panic("Unexpected ARM PA size bits when determining VSpace size bits")
           ELSE Ok(Some(12))
      [] cfg.arch = "Riscv64" -> Ok(Some(12))
      [] cfg.arch = "X86_64" -> Ok(Some(12))

\* the ObjectType::VSpace arm
vspace_size_bits(cfg) ==
    CASE cfg.arch = "Aarch64" ->
           IF cfg.hypervisor
           THEN IF cfg.arm_pa_size_bits = None
                THEN Panic("called Option::unwrap() on a None value")
                ELSE CASE cfg.arm_pa_size_bits[1] = 40 -> Ok(Some(13))
                       [] cfg.arm_pa_size_bits[1] = 44 -> Ok(Some(12))
                       [] OTHER -> Panic("Unexpected ARM PA size bits when determining VSpace size bits")
           ELSE Ok(Some(12))
      [] cfg.arch = "Riscv64" -> Ok(Some(12))
      [] cfg.arch = "X86_64" -> Ok(Some(12))

\* a Vcpu arm that forgets its size on x86
vcpu_size_bits_x86_unsized(cfg) ==
    CASE cfg.arch = "Aarch64" -> Ok(Some(12))
      [] cfg.arch = "X86_64" -> Ok(None)
      [] OTHER -> Panic("Unexpected architecture asking for vCPU size bits")

\* a Vcpu arm that falls back to the ARM size on any other architecture
vcpu_size_bits_defaulted(cfg) ==
    CASE cfg.arch = "Aarch64" -> Ok(Some(12))
      [] cfg.arch = "X86_64" -> Ok(Some(14))
      [] OTHER -> Ok(Some(12))

\* the ObjectType::Vcpu arm
vcpu_size_bits(cfg) ==
    CASE cfg.arch = "Aarch64" -> Ok(Some(12))
      [] cfg.arch = "X86_64" -> Ok(Some(14))
      [] OTHER -> Panic("Unexpected architecture asking for vCPU size bits")

fixed_size_bits(self, cfg) ==
    CASE self = "Tcb" -> tcb_size_bits(cfg)
      [] self = "Endpoint" -> Ok(Some(4))
      [] self = "Notification" -> Ok(Some(6))
      [] self = "Reply" -> Ok(Some(5))
      [] self = "VSpace" -> vspace_size_bits(cfg)
      [] self = "PageTable" -> Ok(Some(12))
      [] self = "HugePage" -> Ok(Some(30))
      [] self = "LargePage" -> Ok(Some(21))
      [] self = "SmallPage" -> Ok(Some(12))
      [] self = "Vcpu" -> vcpu_size_bits(cfg)
      [] self = "PageDirectory" -> Ok(Some(12))
      [] self = "PdPt" -> Ok(Some(12))
      [] self = "Pml4" -> Ok(Some(12))
      [] self = "IOPageTable" -> Ok(Some(12))
      [] self = "EptPml4" -> Ok(Some(12))
      [] self = "EptPdPt" -> Ok(Some(12))
      [] self = "EptPageDirectory" -> Ok(Some(12))
      [] self = "EptPageTable" -> Ok(Some(12))
      [] OTHER -> Ok(None)

\* self.fixed_size_bits(config).map(|bits| 1 << bits)
fixed_size(self, cfg) ==
    LET bits == fixed_size_bits(self, cfg)
    IN  IF bits.panic # "none" THEN bits
        ELSE IF Unwrap(bits) = None THEN Ok(None)
        ELSE Ok(Some(Shl(U64(1), Unwrap(bits)[1])))

to_str(self) ==
    CASE self = "Untyped" -> "SEL4_UNTYPED_OBJECT"
      [] self = "Tcb" -> "SEL4_TCB_OBJECT"
      [] self = "Endpoint" -> "SEL4_ENDPOINT_OBJECT"
      [] self = "Notification" -> "SEL4_NOTIFICATION_OBJECT"
      [] self = "CNode" -> "SEL4_CNODE_OBJECT"
      [] self = "SchedContext" -> "SEL4_SCHEDCONTEXT_OBJECT"
      [] self = "Reply" -> "SEL4_REPLY_OBJECT"
      [] self = "HugePage" -> "SEL4_HUGE_PAGE_OBJECT"
      [] self = "VSpace" -> "SEL4_VSPACE_OBJECT"
      [] self = "SmallPage" -> "SEL4_SMALL_PAGE_OBJECT"
      [] self = "LargePage" -> "SEL4_LARGE_PAGE_OBJECT"
      [] self = "PageTable" -> "SEL4_PAGE_TABLE_OBJECT"
      [] self = "Vcpu" -> "SEL4_VCPU_OBJECT"
      [] self = "PageDirectory" -> "SEL4_PAGE_DIRECTORY_OBJECT"
      [] self = "PdPt" -> "SEL4_PDPT_OBJECT"
      [] self = "Pml4" -> "SEL4_PML4_OBJECT"
      [] self = "IOPageTable" -> "SEL4_IO_PAGE_TABLE_OBJECT"
      [] self = "EptPml4" -> "SEL4_EPT_PML4_OBJECT"
      [] self = "EptPdPt" -> "SEL4_EPT_PDPT_OBJECT"
      [] self = "EptPageDirectory" -> "SEL4_EPT_PAGE_DIRECTORY_OBJECT"
      [] self = "EptPageTable" -> "SEL4_EPT_PAGE_TABLE_OBJECT"

\* the digits of format!("{:x}", w): lower-case hexadecimal, no leading zero
LowerHex(w) ==
    LET digit == <<"0", "1", "2", "3", "4", "5", "6", "7",
                   "8", "9", "a", "b", "c", "d", "e", "f">>
        top == IF w = {} THEN 0 ELSE CHOOSE h \in w : \A b \in w : b <= h
        n == (top \div 4) + 1
    IN  [i \in 1..n |->
            digit[1 + SumBits({b \in 0..3 : (4 * (n - i) + b) \in w})]]

\* the order of declaration of the variants of enum ObjectType
ObjectTypeOrder == <<
    "Untyped", "Tcb", "Endpoint", "Notification", "CNode", "SchedContext",
    "Reply", "HugePage", "VSpace", "SmallPage", "LargePage", "PageTable",
    "Vcpu", "PageDirectory", "PdPt", "Pml4", "IOPageTable", "EptPml4",
    "EptPdPt", "EptPageDirectory", "EptPageTable">>

\* a numbering that takes the position of the variant in the enum, whatever
\* the architecture
value_declaration_order(self, cfg) ==
    Ok((CHOOSE i \in DOMAIN ObjectTypeOrder : ObjectTypeOrder[i] = self) - 1)

value(self, cfg) ==
    CASE self = "Untyped" -> Ok(0)
      [] self = "Tcb" -> Ok(1)
      [] self = "Endpoint" -> Ok(2)
      [] self = "Notification" -> Ok(3)
      [] self = "CNode" -> Ok(4)
      [] self = "SchedContext" -> Ok(5)
      [] self = "Reply" -> Ok(6)
      [] self = "HugePage" ->
           (CASE cfg.arch = "Aarch64" -> Ok(7)
              [] cfg.arch = "Riscv64" -> Ok(7)
              [] cfg.arch = "X86_64" -> Ok(9))
      [] self = "VSpace" ->
           (CASE cfg.arch = "Aarch64" -> Ok(8)
              [] cfg.arch = "Riscv64" -> Ok(10)
              [] cfg.arch = "X86_64" -> Ok(8))
      [] self = "SmallPage" ->
           (CASE cfg.arch = "Aarch64" -> Ok(9)
              [] cfg.arch = "Riscv64" -> Ok(8)
              [] cfg.arch = "X86_64" -> Ok(10))
      [] self = "LargePage" ->
           (CASE cfg.arch = "Aarch64" -> Ok(10)
              [] cfg.arch = "Riscv64" -> Ok(9)
              [] cfg.arch = "X86_64" -> Ok(11))
      [] self = "PageTable" ->
           (CASE cfg.arch = "Aarch64" -> Ok(11)
              [] cfg.arch = "Riscv64" -> Ok(10)
              [] cfg.arch = "X86_64" -> Ok(12))
      [] self = "Vcpu" ->
           (CASE cfg.arch = "Aarch64" -> Ok(12)
              [] cfg.arch = "X86_64" -> Ok(15)
              [] OTHER -> Panic("Unknown vCPU object type value for given kernel config"))
      [] self = "PdPt" -> Ok(7)
      [] self = "Pml4" -> Ok(8)
      [] self = "PageDirectory" -> Ok(13)
      [] self = "IOPageTable" -> Ok(14)
      [] self = "EptPml4" -> Ok(16)
      [] self = "EptPdPt" -> Ok(17)
      [] self = "EptPageDirectory" -> Ok(18)
      [] self = "EptPageTable" -> Ok(19)

\* ObjectType::format: the pieces of the line, in the order they are written;
\* the size is worked out first, then the value
format(self, cfg) ==
    LET size == fixed_size(self, cfg)
        object_size == IF Unwrap(size) # None
                       THEN <<"0x">> \o LowerHex(Unwrap(size)[1])
                       ELSE <<"variable size">>
        v == value(self, cfg)
    IN  IF size.panic # "none" THEN size
        ELSE IF v.panic # "none" THEN v
        ELSE Ok(<<"         object_type          ", Unwrap(v), " (", to_str(self),
                  " - ">> \o object_size \o <<")">>)

(***************************************************************************)
(* Invocation labels (enum InvocationLabel, repr(u32)) and the label table *)
(* of the configuration (Config::invocations_labels, a serde_json::Value). *)
(***************************************************************************)
\* the variants in declaration order; a label is its discriminant 0, 1, ...
InvocationLabelNames == <<
    "UntypedRetype", "TCBReadRegisters", "TCBWriteRegisters",
    "TCBCopyRegisters", "TCBConfigure", "TCBSetPriority", "TCBSetMCPriority",
    "TCBSetSchedParams", "TCBSetTimeoutEndpoint", "TCBSetIPCBuffer",
    "TCBSetSpace", "TCBSuspend", "TCBResume", "TCBBindNotification",
    "TCBUnbindNotification", "TCBSetTLSBase", "CNodeRevoke", "CNodeDelete",
    "CNodeCancelBadgedSends", "CNodeCopy", "CNodeMint", "CNodeMove",
    "CNodeMutate", "CNodeRotate", "IRQIssueIRQHandler", "IRQAckIRQ",
    "IRQSetIRQHandler", "IRQClearIRQHandler", "DomainSetSet",
    "SchedControlConfigureFlags", "SchedContextBind", "SchedContextUnbind",
    "SchedContextUnbindObject", "SchedContextConsume", "SchedContextYieldTo",
    "ARMVSpaceCleanData", "ARMVSpaceInvalidateData",
    "ARMVSpaceCleanInvalidateData", "ARMVSpaceUnifyInstruction",
    "ARMSMCCall", "ARMPageTableMap", "ARMPageTableUnmap", "ARMPageMap",
    "ARMPageUnmap", "ARMPageCleanData", "ARMPageInvalidateData",
    "ARMPageCleanInvalidateData", "ARMPageUnifyInstruction",
    "ARMPageGetAddress", "ARMASIDControlMakePool", "ARMASIDPoolAssign",
    "ARMVCPUSetTCB", "ARMVCPUInjectIRQ", "ARMVCPUReadReg", "ARMVCPUWriteReg",
    "ARMVCPUAckVppi", "ARMIRQIssueIRQHandlerTrigger", "RISCVPageTableMap",
    "RISCVPageTableUnmap", "RISCVPageMap", "RISCVPageUnmap",
    "RISCVPageGetAddress", "RISCVASIDControlMakePool", "RISCVASIDPoolAssign",
    "RISCVIRQIssueIRQHandlerTrigger", "X86PDPTMap", "X86PDPTUnmap",
    "X86PageDirectoryMap", "X86PageDirectoryUnmap", "X86PageTableMap",
    "X86PageTableUnmap", "X86IOPageTableMap", "X86IOPageTableUnmap",
    "X86PageMap", "X86PageUnmap", "X86PageMapIO", "X86PageGetAddress",
    "X86PageMapEPT", "X86ASIDControlMakePool", "X86ASIDPoolAssign",
    "X86IOPortControlIssue", "X86IOPortIn8", "X86IOPortIn16",
    "X86IOPortIn32", "X86IOPortOut8", "X86IOPortOut16", "X86IOPortOut32",
    "X86IRQIssueIRQHandlerIOAPIC", "X86IRQIssueIRQHandlerMSI",
    "TCBSetEPTRoot", "X86VCPUSetTCB", "X86VCPUReadVMCS", "X86VCPUWriteVMCS",
    "X86VCPUEnableIOPort", "X86VCPUDisableIOPort", "X86VCPUWriteRegisters",
    "X86EPTPDPTMap", "X86EPTPDPTUnmap", "X86EPTPDMap", "X86EPTPDUnmap",
    "X86EPTPTMap", "X86EPTPTUnmap">>

InvocationLabel == {i - 1 : i \in DOMAIN InvocationLabelNames}

\* InvocationLabel::<name>
Label(name) ==
    (CHOOSE i \in DOMAIN InvocationLabelNames : InvocationLabelNames[i] = name) - 1

\* Display for InvocationLabel: the Debug name of the variant
to_string(label) == InvocationLabelNames[label + 1]

\* JSON values as far as Invocation::new tells them apart
JNull == [type |-> "Null", num |-> "", val |-> {}]
JString == [type |-> "String", num |-> "", val |-> {}]
JU64(w) == [type |-> "Number", num |-> "PosInt", val |-> w]
JNegInt == [type |-> "Number", num |-> "NegInt", val |-> {}]
JFloat == [type |-> "Number", num |-> "Float", val |-> {}]

\* Value[key]: a missing key reads as Null
json_index(obj, key) == IF key \in DOMAIN obj THEN obj[key] ELSE JNull
\* Value::as_number
as_number(v) == IF v.type = "Number" THEN Some(v) ELSE None
\* Number::as_u64
as_u64(n) == IF n.num = "PosInt" THEN Some(n.val) ELSE None
\* a narrowing that truncates, as `as u32` would
try_into_u32_truncating(w) == Some(ModPow2(w, 32))

\* u64 -> u32 try_into
try_into_u32(w) == IF LtPow2(w, 32) THEN Some(w) ELSE None

(***************************************************************************)
(* Invocation arguments (enum InvocationArgs).                             *)
(***************************************************************************)
IrqTrigger_as_u64(t) == IF t = "Level" THEN U64(0) ELSE U64(1)

\* the arms of to_label that branch on the architecture
to_label_asid_pool_assign(cfg) ==
    CASE cfg.arch = "Aarch64" -> Label("ARMASIDPoolAssign")
      [] cfg.arch = "Riscv64" -> Label("RISCVASIDPoolAssign")
      [] cfg.arch = "X86_64" -> Label("X86ASIDPoolAssign")

to_label_irq_control_get_trigger(cfg) ==
    CASE cfg.arch = "Aarch64" -> Label("ARMIRQIssueIRQHandlerTrigger")
      [] cfg.arch = "Riscv64" -> Label("RISCVIRQIssueIRQHandlerTrigger")
      [] cfg.arch = "X86_64" -> Label("X86IRQIssueIRQHandlerIOAPIC")

to_label_page_upper_directory_map(cfg) ==
    CASE cfg.arch = "Aarch64" -> Label("ARMPageTableMap")
      [] cfg.arch = "Riscv64" -> Label("RISCVPageTableMap")
      [] cfg.arch = "X86_64" -> Label("X86PDPTMap")

\* a PageDirectoryMap arm that takes the x86 page-table label for the directory
to_label_page_directory_map_as_table(cfg) ==
    CASE cfg.arch = "Aarch64" -> Label("ARMPageTableMap")
      [] cfg.arch = "Riscv64" -> Label("RISCVPageTableMap")
      [] cfg.arch = "X86_64" -> Label("X86PageTableMap")

to_label_page_directory_map(cfg) ==
    CASE cfg.arch = "Aarch64" -> Label("ARMPageTableMap")
      [] cfg.arch = "Riscv64" -> Label("RISCVPageTableMap")
      [] cfg.arch = "X86_64" -> Label("X86PageDirectoryMap")

to_label_page_table_map(cfg) ==
    CASE cfg.arch = "Aarch64" -> Label("ARMPageTableMap")
      [] cfg.arch = "Riscv64" -> Label("RISCVPageTableMap")
      [] cfg.arch = "X86_64" -> Label("X86PageTableMap")

to_label_page_map(cfg) ==
    CASE cfg.arch = "Aarch64" -> Label("ARMPageMap")
      [] cfg.arch = "Riscv64" -> Label("RISCVPageMap")
      [] cfg.arch = "X86_64" -> Label("X86PageMap")

to_label(self, cfg) ==
    CASE self.variant = "UntypedRetype" -> Label("UntypedRetype")
      [] self.variant = "TcbSetSchedParams" -> Label("TCBSetSchedParams")
      [] self.variant = "TcbSetSpace" -> Label("TCBSetSpace")
      [] self.variant = "TcbSetIpcBuffer" -> Label("TCBSetIPCBuffer")
      [] self.variant = "TcbResume" -> Label("TCBResume")
      [] self.variant = "TcbWriteRegisters" -> Label("TCBWriteRegisters")
      [] self.variant = "TcbBindNotification" -> Label("TCBBindNotification")
      [] self.variant = "AsidPoolAssign" -> to_label_asid_pool_assign(cfg)
      [] self.variant = "IrqControlGetTrigger" ->
           to_label_irq_control_get_trigger(cfg)
      [] self.variant = "IrqHandlerSetNotification" -> Label("IRQSetIRQHandler")
      [] self.variant = "IoPortControlIssue" -> Label("X86IOPortControlIssue")
      [] self.variant = "PageUpperDirectoryMap" ->
           to_label_page_upper_directory_map(cfg)
      [] self.variant = "PageDirectoryMap" -> to_label_page_directory_map(cfg)
      [] self.variant = "PageTableMap" -> to_label_page_table_map(cfg)
      [] self.variant = "PageMap" -> to_label_page_map(cfg)
      [] self.variant = "CnodeCopy" -> Label("CNodeCopy")
      [] self.variant = "CnodeMint" -> Label("CNodeMint")
      [] self.variant = "SchedControlConfigureFlags" ->
           Label("SchedControlConfigureFlags")
      [] self.variant = "ArmVcpuSetTcb" -> Label("ARMVCPUSetTCB")

(***************************************************************************)
(* Register files (struct Riscv64Regs): a value of the struct is a         *)
(* function from its field names to 64-bit words.                          *)
(***************************************************************************)
Riscv64RegsFields == {
    "pc", "ra", "sp", "gp", "s0", "s1", "s2", "s3", "s4", "s5", "s6", "s7",
    "s8", "s9", "s10", "s11", "a0", "a1", "a2", "a3", "a4", "a5", "a6",
    "a7", "t0", "t1", "t2", "t3", "t4", "t5", "t6", "tp"}

Riscv64Regs_field_names(self) ==
    <<
      <<"pc", self.pc>>, <<"ra", self.ra>>, <<"sp", self.sp>>,
      <<"gp", self.gp>>, <<"s0", self.s0>>, <<"s1", self.s1>>,
      <<"s2", self.s2>>, <<"s3", self.s3>>, <<"s4", self.s4>>,
      <<"s5", self.s5>>, <<"s6", self.s6>>, <<"s7", self.s7>>,
      <<"s8", self.s8>>, <<"s9", self.s9>>, <<"s10", self.s10>>,
      <<"s11", self.s11>>, <<"a0", self.a0>>, <<"a1", self.a1>>,
      <<"a2", self.a2>>, <<"a3", self.a3>>, <<"a4", self.a4>>,
      <<"a5", self.a5>>, <<"a6", self.a6>>, <<"a7", self.a7>>,
      <<"t0", self.t0>>, <<"t1", self.t1>>, <<"t2", self.t2>>,
      <<"t3", self.t3>>, <<"t4", self.t4>>, <<"t5", self.t5>>,
      <<"t6", self.t6>>, <<"tp", self.tp>>>>

Riscv64Regs_as_slice(self) ==
    <<
      self.pc, self.ra, self.sp, self.gp, self.s0, self.s1, self.s2,
      self.s3, self.s4, self.s5, self.s6, self.s7, self.s8, self.s9,
      self.s10, self.s11, self.a0, self.a1, self.a2, self.a3, self.a4,
      self.a5, self.a6, self.a7, self.t0, self.t1, self.t2, self.t3,
      self.t4, self.t5, self.t6, self.tp>>

(***************************************************************************)
(* Register files (struct X86_64Regs).                                     *)
(***************************************************************************)
X86_64RegsFields == {
    "rip", "rsp", "rflags", "rax", "rbx", "rcx", "rdx", "rsi", "rdi", "rbp",
    "r8", "r9", "r10", "r11", "r12", "r13", "r14", "r15", "fs_base",
    "gs_base"}

X86_64Regs_field_names(self) ==
    <<
      <<"rip", self.rip>>, <<"rsp", self.rsp>>, <<"rflags", self.rflags>>,
      <<"rax", self.rax>>, <<"rbx", self.rbx>>, <<"rcx", self.rcx>>,
      <<"rdx", self.rdx>>, <<"rsi", self.rsi>>, <<"rdi", self.rdi>>,
      <<"rbp", self.rbp>>, <<"r8", self.r8>>, <<"r9", self.r9>>,
      <<"r10", self.r10>>, <<"r11", self.r11>>, <<"r12", self.r12>>,
      <<"r13", self.r13>>, <<"r14", self.r14>>, <<"r15", self.r15>>,
      <<"fs_base", self.fs_base>>, <<"gs_base", self.gs_base>>
    >>

X86_64Regs_as_slice(self) ==
    <<
      self.rip, self.rsp, self.rflags, self.rax, self.rbx, self.rcx,
      self.rdx, self.rsi, self.rdi, self.rbp, self.r8, self.r9, self.r10,
      self.r11, self.r12, self.r13, self.r14, self.r15, self.fs_base,
      self.gs_base
    >>

\* Number of registers
X86_64Regs_LEN == 20

(***************************************************************************)
(* Register files (struct Aarch64Regs).                                    *)
(***************************************************************************)
Aarch64RegsFields == {
    "pc", "sp", "spsr", "x0", "x1", "x2", "x3", "x4", "x5", "x6", "x7",
    "x8", "x16", "x17", "x18", "x29", "x30", "x9", "x10", "x11", "x12",
    "x13", "x14", "x15", "x19", "x20", "x21", "x22", "x23", "x24", "x25",
    "x26", "x27", "x28", "tpidr_el0", "tpidrro_el0"}

Aarch64Regs_field_names(self) ==
    <<
      <<"pc", self.pc>>, <<"sp", self.sp>>, <<"spsr", self.spsr>>,
      <<"x0", self.x0>>, <<"x1", self.x1>>, <<"x2", self.x2>>, <<"x3", self.x3>>,
      <<"x4", self.x4>>, <<"x5", self.x5>>, <<"x6", self.x6>>,
      <<"x7", self.x7>>, <<"x8", self.x8>>, <<"x16", self.x16>>,
      <<"x17", self.x17>>, <<"x18", self.x18>>, <<"x29", self.x29>>,
      <<"x30", self.x30>>, <<"x9", self.x9>>, <<"x10", self.x10>>,
      <<"x11", self.x11>>, <<"x12", self.x12>>, <<"x13", self.x13>>,
      <<"x14", self.x14>>, <<"x15", self.x15>>, <<"x19", self.x19>>,
      <<"x20", self.x20>>, <<"x21", self.x21>>, <<"x22", self.x22>>,
      <<"x23", self.x23>>, <<"x24", self.x24>>, <<"x25", self.x25>>,
      <<"x26", self.x26>>, <<"x27", self.x27>>, <<"x28", self.x28>>,
      <<"tpidr_el0", self.tpidr_el0>>, <<"tpidrro_el0", self.tpidrro_el0>>
    >>

\* an as_slice() that lists x0 to x30 by their numbers
Aarch64Regs_as_slice_numbered(self) ==
    <<
      self.pc, self.sp, self.spsr, self.x0, self.x1, self.x2, self.x3,
      self.x4, self.x5, self.x6, self.x7, self.x8, self.x9, self.x10,
      self.x11, self.x12, self.x13, self.x14, self.x15, self.x16, self.x17,
      self.x18, self.x19, self.x20, self.x21, self.x22, self.x23, self.x24,
      self.x25, self.x26, self.x27, self.x28, self.x29, self.x30,
      self.tpidr_el0, self.tpidrro_el0
    >>

Aarch64Regs_as_slice(self) ==
    <<
      self.pc, self.sp, self.spsr, self.x0, self.x1, self.x2, self.x3,
      self.x4, self.x5, self.x6, self.x7, self.x8, self.x16, self.x17,
      self.x18, self.x29, self.x30, self.x9, self.x10, self.x11, self.x12,
      self.x13, self.x14, self.x15, self.x19, self.x20, self.x21, self.x22,
      self.x23, self.x24, self.x25, self.x26, self.x27, self.x28,
      self.tpidr_el0, self.tpidrro_el0
    >>

\* Number of registers
Aarch64Regs_LEN == 36

\* Number of registers
Riscv64Regs_LEN == 32

\* the register file of an architecture: its fields, its two accessors and
\* its LEN
RegsFields(arch) ==
    CASE arch = "Riscv64" -> Riscv64RegsFields
      [] arch = "X86_64" -> X86_64RegsFields
      [] arch = "Aarch64" -> Aarch64RegsFields

RegsFieldNames(arch, self) ==
    CASE arch = "Riscv64" -> Riscv64Regs_field_names(self)
      [] arch = "X86_64" -> X86_64Regs_field_names(self)
      [] arch = "Aarch64" -> Aarch64Regs_field_names(self)

RegsAsSlice(arch, self) ==
    CASE arch = "Riscv64" -> Riscv64Regs_as_slice(self)
      [] arch = "X86_64" -> X86_64Regs_as_slice(self)
      [] arch = "Aarch64" -> Aarch64Regs_as_slice(self)

RegsLEN(arch) ==
    CASE arch = "Riscv64" -> Riscv64Regs_LEN
      [] arch = "X86_64" -> X86_64Regs_LEN
      [] arch = "Aarch64" -> Aarch64Regs_LEN

\* the (service, args, extra_caps) triple of get_args
Triple(service, args, extra_caps) ==
    Ok([service |-> service, args |-> args, extra_caps |-> extra_caps])

\* a TcbWriteRegisters arm that packs arch_flags low and resume above it
get_args_write_registers_flags_low(self) ==
    LET resume_byte == IF self.resume THEN U64(1) ELSE U64(0)
        flags == BitOr(Shl(resume_byte, 8), self.arch_flags)
        regs_values == [i \in DOMAIN self.regs |-> self.regs[i][2]]
    IN  Triple(self.tcb, <<flags, self.count>> \o regs_values, <<>>)

\* a TcbWriteRegisters arm that walks regs from its last entry to its first
get_args_write_registers_backwards(self) ==
    LET resume_byte == IF self.resume THEN U64(1) ELSE U64(0)
        flags == BitOr(Shl(self.arch_flags, 8), resume_byte)
        n == Len(self.regs)
        regs_values == [i \in DOMAIN self.regs |-> self.regs[n + 1 - i][2]]
    IN  Triple(self.tcb, <<flags, self.count>> \o regs_values, <<>>)

\* the TcbWriteRegisters arm: resume and arch_flags packed into one word,
\* then count, then the value of every (name, value) pair of regs
get_args_write_registers(self) ==
    LET resume_byte == IF self.resume THEN U64(1) ELSE U64(0)
        flags == BitOr(Shl(self.arch_flags, 8), resume_byte)
        regs_values == [i \in DOMAIN self.regs |-> self.regs[i][2]]
    IN  Triple(self.tcb, <<flags, self.count>> \o regs_values, <<>>)

\* an UntypedRetype arm that puts size_bits ahead of the object type number
get_args_untyped_retype_size_first(self, cfg) ==
    LET v == value(self.object_type, cfg)
    IN  IF v.panic # "none" THEN Panic(v.panic)
        ELSE Triple(self.untyped,
                    <<self.size_bits, U64(Unwrap(v)), self.node_index,
                      self.node_depth, self.node_offset, self.num_objects>>,
                    <<self.root>>)

\* the UntypedRetype arm: the only one that reads the configuration
get_args_untyped_retype(self, cfg) ==
    LET v == value(self.object_type, cfg)
    IN  IF v.panic # "none" THEN Panic(v.panic)
        ELSE Triple(self.untyped,
                    <<U64(Unwrap(v)), self.size_bits, self.node_index,
                      self.node_depth, self.node_offset, self.num_objects>>,
                    <<self.root>>)

get_args(self, cfg) ==
    CASE self.variant = "UntypedRetype" -> get_args_untyped_retype(self, cfg)
      [] self.variant = "TcbSetSchedParams" ->
           Triple(self.tcb, <<self.mcp, self.priority>>,
                  <<self.authority, self.sched_context, self.fault_ep>>)
      [] self.variant = "TcbSetSpace" ->
           Triple(self.tcb, <<self.cspace_root_data, self.vspace_root_data>>,
                  <<self.fault_ep, self.cspace_root, self.vspace_root>>)
      [] self.variant = "TcbSetIpcBuffer" ->
           Triple(self.tcb, <<self.buffer>>, <<self.buffer_frame>>)
      [] self.variant = "TcbResume" -> Triple(self.tcb, <<>>, <<>>)
      [] self.variant = "TcbWriteRegisters" -> get_args_write_registers(self)
      [] self.variant = "TcbBindNotification" ->
           Triple(self.tcb, <<>>, <<self.notification>>)
      [] self.variant = "AsidPoolAssign" ->
           Triple(self.asid_pool, <<>>, <<self.vspace>>)
      [] self.variant = "IrqControlGetTrigger" ->
           Triple(self.irq_control,
                  <<self.irq, IrqTrigger_as_u64(self.trigger), self.dest_index,
                    self.dest_depth>>,
                  <<self.dest_root>>)
      [] self.variant = "IrqHandlerSetNotification" ->
           Triple(self.irq_handler, <<>>, <<self.notification>>)
      [] self.variant = "IoPortControlIssue" ->
           Triple(self.ioport_control,
                  <<self.first_port, self.last_port, self.dest_index,
                    self.dest_depth>>,
                  <<self.dest_root>>)
      [] self.variant = "PageUpperDirectoryMap" ->
           Triple(self.page_upper_directory, <<self.vaddr, self.attr>>,
                  <<self.vspace>>)
      [] self.variant = "PageDirectoryMap" ->
           Triple(self.page_directory, <<self.vaddr, self.attr>>, <<self.vspace>>)
      [] self.variant = "PageTableMap" ->
           Triple(self.page_table, <<self.vaddr, self.attr>>, <<self.vspace>>)
      [] self.variant = "PageMap" ->
           Triple(self.page, <<self.vaddr, self.rights, self.attr>>,
                  <<self.vspace>>)
      [] self.variant = "CnodeCopy" ->
           Triple(self.cnode,
                  <<self.dest_index, self.dest_depth, self.src_obj,
                    self.src_depth, self.rights>>,
                  <<self.src_root>>)
      [] self.variant = "CnodeMint" ->
           Triple(self.cnode,
                  <<self.dest_index, self.dest_depth, self.src_obj,
                    self.src_depth, self.rights, self.badge>>,
                  <<self.src_root>>)
      [] self.variant = "SchedControlConfigureFlags" ->
           Triple(self.sched_control,
                  <<self.budget, self.period, self.extra_refills, self.badge,
                    self.flags>>,
                  <<self.sched_context>>)
      [] self.variant = "ArmVcpuSetTcb" -> Triple(self.vcpu, <<>>, <<self.tcb>>)

(***************************************************************************)
(* The invocation (struct Invocation) and its encoder.                     *)
(***************************************************************************)
\* a packing that puts the label two bits too low
pack_tag_label_at_10(label, caps, extra_caps, length) ==
    BitOr(BitOr(BitOr(Shl(label, 10), Shl(caps, 9)), Shl(extra_caps, 7)), length)

\* label << 12 | caps << 9 | extra_caps << 7 | length
pack_tag(label, caps, extra_caps, length) ==
    BitOr(BitOr(BitOr(Shl(label, 12), Shl(caps, 9)), Shl(extra_caps, 7)), length)

\* a constructor that cuts every field to the width of its slot
message_info_new_truncating(label, caps, extra_caps, length) ==
    Ok(pack_tag(ModPow2(label, 50), ModPow2(caps, 3), ModPow2(extra_caps, 3),
                ModPow2(length, 7)))

message_info_new(label, caps, extra_caps, length) ==
    IF ~LtPow2(label, 50) THEN Panic("assertion failed: label < (1 << 50)")
    ELSE IF ~LtPow2(caps, 3) THEN Panic("assertion failed: caps < 8")
    ELSE IF ~LtPow2(extra_caps, 3) THEN Panic("assertion failed: extra_caps < 8")
    ELSE IF ~LtPow2(length, 7) THEN Panic("assertion failed: length < 0x80")
    ELSE Ok(pack_tag(label, caps, extra_caps, length))

\* the label_raw initialiser of Invocation::new
label_raw_of(cfg, label) ==
    LET number == as_number(json_index(cfg.invocations_labels, to_string(label)))
    IN  IF number = None THEN Panic("Invocation is not a number")
        ELSE LET u == as_u64(number[1])
             IN  IF u = None THEN Panic("Invocation is not u64")
                 ELSE LET r == try_into_u32(u[1])
                      IN  IF r = None THEN Panic("Invocation is not u32")
                          ELSE Ok(r[1])

new(cfg, args) ==
    LET label == to_label(args, cfg)
        raw == label_raw_of(cfg, label)
    IN  IF raw.panic # "none" THEN Panic(raw.panic)
        ELSE Ok([label |-> label, label_raw |-> Unwrap(raw), args |-> args,
                 repeat |-> None])

\* a comparison that is off by one: count >= 1
Gt1_or_equal(count) == count # {}

\* count > 1 on u32
Gt1(count) == \E b \in count : b >= 1

\* a repeat() that stores the new descriptor over the one it finds
repeat_replacing(self, count, repeat_args) ==
    IF Gt1(count)
    THEN Ok([self EXCEPT !.repeat = Some([count |-> count, args |-> repeat_args])])
    ELSE Ok(self)

repeat(self, count, repeat_args) ==
    IF self.repeat # None THEN Panic("assertion failed: self.repeat.is_none()")
    ELSE IF Gt1(count)
         THEN Ok([self EXCEPT !.repeat = Some([count |-> count, args |-> repeat_args])])
         ELSE Ok(self)

\* if let Some((count, _)) = self.repeat { tag |= ((count - 1) as u64) << 32 }
tag_with_repeat(tag, rep) ==
    IF rep # None THEN BitOr(tag, Shl(Dec(rep[1].count), 32)) ELSE tag

\* an extend that puts the new bytes in front of the buffer
extend_in_front(d, word) == to_le_bytes(word) \o d

\* data.extend(word.to_le_bytes())
extend(d, word) == d \o to_le_bytes(word)

\* for arg in words { data.extend(arg.to_le_bytes()) }: the loop over the
\* first half of the words, then, on the buffer that loop has produced, the
\* loop over the second half
RECURSIVE extend_each(_, _)
extend_each(d, words) ==
    CASE Len(words) = 0 -> d
      [] Len(words) = 1 -> extend(d, words[1])
      [] OTHER ->
           LET half == Len(words) \div 2
               first == extend_each(d, SubSeq(words, 1, half))
           IN  IF Len(first) >= Len(d)
               THEN extend_each(first, SubSeq(words, half + 1, Len(words)))
               ELSE first

\* a base group written with the plain arguments ahead of the extra caps
emit_base_args_first(d, tag, g) ==
    extend_each(extend_each(extend(extend(d, tag), g.service), g.args), g.extra_caps)

\* a base group that stops after the tag word
emit_base_tag_only(d, tag, g) == extend(d, tag)

\* tag, service, extra caps, args of the base invocation
emit_base(d, tag, g) ==
    extend_each(extend_each(extend(extend(d, tag), g.service), g.extra_caps), g.args)

\* service, extra caps, args of the repeat invocation
emit_repeat(d, g) ==
    extend_each(extend_each(extend(d, g.service), g.extra_caps), g.args)

\* a comparison that lets every pair through
same_discriminant_unchecked(a, b) == TRUE

\* std::mem::discriminant(&self.args) == std::mem::discriminant(&repeat)
same_discriminant(a, b) == a.variant = b.variant

\* a tag label looked up again in the configuration handed to the encoder
tag_label_looked_up_again(self, cfg) ==
    LET raw == label_raw_of(cfg, to_label(self.args, cfg))
    IN  IF raw.panic # "none" THEN U64(0) ELSE Unwrap(raw)

\* self.label_raw as u64: the number stored by Invocation::new
tag_label(self, cfg) == self.label_raw

\* the result: the buffer as the call leaves it, and the panic that ended it
\* (data.reserve changes the capacity of the buffer, not its contents)
add_raw_invocation(self, cfg, d) ==
    LET got == get_args(self.args, cfg)
    IN  IF got.panic # "none" THEN [data |-> d, panic |-> got.panic]
        ELSE
        LET g == Unwrap(got)
            info == message_info_new(tag_label(self, cfg), U64(0),
                                     U64(Len(g.extra_caps)), U64(Len(g.args)))
        IN  IF info.panic # "none" THEN [data |-> d, panic |-> info.panic]
            ELSE
            LET tag == tag_with_repeat(Unwrap(info), self.repeat)
                d1 == emit_base(d, tag, g)
            IN  IF self.repeat = None THEN [data |-> d1, panic |-> "none"]
                ELSE IF ~same_discriminant(self.args, self.repeat[1].args)
                THEN [data |-> d1,
                      panic |-> "assertion failed: discriminant(args) == discriminant(repeat)"]
                ELSE
                LET rgot == get_args(self.repeat[1].args, cfg)
                IN  IF rgot.panic # "none" THEN [data |-> d1, panic |-> rgot.panic]
                    ELSE [data |-> emit_repeat(d1, Unwrap(rgot)), panic |-> "none"]

(***************************************************************************)
(* The diagnostic report (Invocation::report_fmt and its helpers).         *)
(***************************************************************************)
\* an object_type() that does not know the RISC-V page table label
object_type_without_riscv_page_table(self) ==
    LET label == to_string(self.label)
    IN
      CASE label = "UntypedRetype" -> Ok("Untyped")
        [] label \in {
               "TCBSetSchedParams",
               "TCBSetSpace",
               "TCBSetIPCBuffer",
               "TCBResume",
               "TCBWriteRegisters",
               "TCBBindNotification"} ->
               Ok("TCB")
        [] label \in {
               "ARMASIDPoolAssign",
               "RISCVASIDPoolAssign",
               "X86ASIDPoolAssign"} ->
               Ok("ASID Pool")
        [] label \in {
               "ARMIRQIssueIRQHandlerTrigger",
               "RISCVIRQIssueIRQHandlerTrigger",
               "X86IRQIssueIRQHandlerIOAPIC",
               "X86IRQIssueIRQHandlerMSI"} ->
               Ok("IRQ Control")
        [] label = "IRQSetIRQHandler" -> Ok("IRQ Handler")
        [] label = "X86IOPortControlIssue" -> Ok("I/O Port")
        [] label = "X86PDPTMap" -> Ok("Page Upper Directory")
        [] label = "X86PageDirectoryMap" -> Ok("Page Directory")
        [] label \in {
               "ARMPageTableMap",
               "X86PageTableMap"} ->
               Ok("Page Table")
        [] label \in {
               "ARMPageMap",
               "RISCVPageMap",
               "X86PageMap"} ->
               Ok("Page")
        [] label \in {"CNodeCopy", "CNodeMint"} -> Ok("CNode")
        [] label = "SchedControlConfigureFlags" -> Ok("SchedControl")
        [] label = "ARMVCPUSetTCB" -> Ok("VCPU")
        [] OTHER -> Panic("Internal error: unexpected label when getting object type")

object_type(self) ==
    LET label == to_string(self.label)
    IN
      CASE label = "UntypedRetype" -> Ok("Untyped")
        [] label \in {
               "TCBSetSchedParams",
               "TCBSetSpace",
               "TCBSetIPCBuffer",
               "TCBResume",
               "TCBWriteRegisters",
               "TCBBindNotification"} ->
               Ok("TCB")
        [] label \in {
               "ARMASIDPoolAssign",
               "RISCVASIDPoolAssign",
               "X86ASIDPoolAssign"} ->
               Ok("ASID Pool")
        [] label \in {
               "ARMIRQIssueIRQHandlerTrigger",
               "RISCVIRQIssueIRQHandlerTrigger",
               "X86IRQIssueIRQHandlerIOAPIC",
               "X86IRQIssueIRQHandlerMSI"} ->
               Ok("IRQ Control")
        [] label = "IRQSetIRQHandler" -> Ok("IRQ Handler")
        [] label = "X86IOPortControlIssue" -> Ok("I/O Port")
        [] label = "X86PDPTMap" -> Ok("Page Upper Directory")
        [] label = "X86PageDirectoryMap" -> Ok("Page Directory")
        [] label \in {
               "ARMPageTableMap",
               "RISCVPageTableMap",
               "X86PageTableMap"} ->
               Ok("Page Table")
        [] label \in {
               "ARMPageMap",
               "RISCVPageMap",
               "X86PageMap"} ->
               Ok("Page")
        [] label \in {"CNodeCopy", "CNodeMint"} -> Ok("CNode")
        [] label = "SchedControlConfigureFlags" -> Ok("SchedControl")
        [] label = "ARMVCPUSetTCB" -> Ok("VCPU")
        [] OTHER -> Panic("Internal error: unexpected label when getting object type")

method_name(self) ==
    LET label == to_string(self.label)
    IN
      CASE label = "UntypedRetype" -> Ok("Retype")
        [] label = "TCBSetSchedParams" -> Ok("SetSchedParams")
        [] label = "TCBSetSpace" -> Ok("SetSpace")
        [] label = "TCBSetIPCBuffer" -> Ok("SetIPCBuffer")
        [] label = "TCBResume" -> Ok("Resume")
        [] label = "TCBWriteRegisters" -> Ok("WriteRegisters")
        [] label = "TCBBindNotification" -> Ok("BindNotification")
        [] label \in {
               "ARMASIDPoolAssign",
               "RISCVASIDPoolAssign",
               "X86ASIDPoolAssign"} ->
               Ok("Assign")
        [] label \in {
               "ARMIRQIssueIRQHandlerTrigger",
               "RISCVIRQIssueIRQHandlerTrigger",
               "X86IRQIssueIRQHandlerIOAPIC",
               "X86IRQIssueIRQHandlerMSI"} ->
               Ok("Get")
        [] label = "IRQSetIRQHandler" -> Ok("SetNotification")
        [] label = "X86IOPortControlIssue" -> Ok("Issue")
        [] label \in {
               "ARMPageTableMap",
               "ARMPageMap",
               "RISCVPageTableMap",
               "RISCVPageMap",
               "X86PDPTMap",
               "X86PageDirectoryMap",
               "X86PageTableMap",
               "X86PageMap"} ->
               Ok("Map")
        [] label = "CNodeCopy" -> Ok("Copy")
        [] label = "CNodeMint" -> Ok("Mint")
        [] label = "SchedControlConfigureFlags" -> Ok("ConfigureFlags")
        [] label = "ARMVCPUSetTCB" -> Ok("VCPUSetTcb")
        [] OTHER -> Panic("Internal error: unexpected label when getting method name")

\* the digits of format!("{:016x}", w): sixteen hexadecimal digits
LowerHex16(w) ==
    LET digit == <<"0", "1", "2", "3", "4", "5", "6", "7",
                   "8", "9", "a", "b", "c", "d", "e", "f">>
    IN  [i \in 1..16 |->
            digit[1 + SumBits({b \in 0..3 : (4 * (16 - i) + b) \in w})]]

\* the fmt_field helpers: a line is kept as its field name and the pieces
\* that follow the padded name
fmt_field(field_name, word) == <<field_name, word>>
fmt_field_str(field_name, word) == <<field_name, word>>
fmt_field_hex(field_name, word) == <<field_name, <<"0x">> \o LowerHex(word)>>
fmt_field_reg(reg, word) == <<reg, ": 0x", LowerHex16(word)>>
fmt_field_bool(field_name, word) == <<field_name, word>>

\* cap_lookup.get(&cap): a capability-name table is a function from the
\* addresses it names to their names
cap_get(cap_lookup, cap) ==
    IF cap \in DOMAIN cap_lookup THEN Some(cap_lookup[cap]) ELSE None

fmt_field_cap(field_name, cap, cap_lookup) ==
    LET found == cap_get(cap_lookup, cap)
        name == IF found # None THEN found[1] ELSE "None"
    IN  <<<<field_name, " (cap)">>, <<"0x">> \o LowerHex16(cap), name>>

\* &cap_lookup[&cap]: Index for HashMap panics on a key that is not there
cap_index(cap_lookup, cap) ==
    LET found == cap_get(cap_lookup, cap)
    IN  IF found # None THEN Ok(found[1]) ELSE Panic("no entry found for key")

\* cap_lookup.get(&cap).unwrap()
cap_get_unwrap(cap_lookup, cap) ==
    LET found == cap_get(cap_lookup, cap)
    IN  IF found # None THEN Ok(found[1])
        ELSE Panic("called Option::unwrap() on a None value")

\* what an arm of the match in report_fmt yields: the lines pushed on
\* arg_strs and the (service, service_str) pair, the name being looked up
\* after the lines were pushed
ReportArm(arg_strs, service, service_str) ==
    IF service_str.panic # "none" THEN service_str
    ELSE Ok([arg_strs |-> arg_strs, service |-> service,
             service_str |-> Unwrap(service_str)])

\* the UntypedRetype arm; 1 << size_bits is a shift of an i32, which
\* overflows from 32 on: a build with overflow checks panics, a build
\* without them shifts by size_bits mod 32
report_untyped_retype(a, cfg, cap_lookup, overflow_checks) ==
    LET line == format(a.object_type, cfg)
        sz_fmt == IF a.size_bits = {} THEN <<"N/A">>
                  ELSE <<"0x">> \o LowerHex({SumBits(ModPow2(a.size_bits, 5))})
    IN  IF line.panic # "none" THEN line
        ELSE IF ~LtPow2(a.size_bits, 5) /\ overflow_checks
        THEN Panic("attempt to shift left with overflow")
        ELSE ReportArm(
               <<Unwrap(line),
                 fmt_field_str("size_bits", <<a.size_bits, " (", sz_fmt, ")">>),
                 fmt_field_cap("root", a.root, cap_lookup),
                 fmt_field("node_index", a.node_index),
                 fmt_field("node_depth", a.node_depth),
                 fmt_field("node_offset", a.node_offset),
                 fmt_field("num_objects", a.num_objects)>>,
               a.untyped, cap_index(cap_lookup, a.untyped))

\* the TcbWriteRegisters arm: reg_strs[0] is read whatever the length of regs
report_write_registers(a, cap_lookup) ==
    LET reg_strs == [i \in DOMAIN a.regs |->
                        fmt_field_reg(a.regs[i][1], a.regs[i][2])]
    IN  IF Len(reg_strs) = 0
        THEN Panic("index out of bounds: the len is 0 but the index is 0")
        ELSE ReportArm(
               <<fmt_field_bool("resume", a.resume),
                 fmt_field("arch_flags", a.arch_flags),
                 fmt_field_str("regs", reg_strs[1])>>
               \o [i \in 1..(Len(reg_strs) - 1) |-> <<" ", reg_strs[i + 1]>>],
               a.tcb, cap_index(cap_lookup, a.tcb))

\* the IoPortControlIssue arm: last_port - first_port is a u64 subtraction
report_ioport_control_issue(a, cap_lookup, overflow_checks) ==
    IF Less(a.last_port, a.first_port) /\ overflow_checks
    THEN Panic("attempt to subtract with overflow")
    ELSE ReportArm(
           <<fmt_field("addr", a.first_port),
             fmt_field("size", WrappingSub(a.last_port, a.first_port)),
             fmt_field_cap("dest_root", a.dest_root, cap_lookup),
             fmt_field("dest_index", a.dest_index),
             fmt_field("dest_depth", a.dest_depth)>>,
           a.ioport_control, cap_get_unwrap(cap_lookup, a.ioport_control))

\* the match on self.args of report_fmt
report_args(a, cfg, cap_lookup, overflow_checks) ==
    CASE a.variant = "UntypedRetype" ->
           report_untyped_retype(a, cfg, cap_lookup, overflow_checks)
      [] a.variant = "TcbSetSchedParams" ->
           ReportArm(
             <<fmt_field_cap("authority", a.authority, cap_lookup),
               fmt_field("mcp", a.mcp),
               fmt_field("priority", a.priority),
               fmt_field_cap("sched_context", a.sched_context, cap_lookup),
               fmt_field_cap("fault_ep", a.fault_ep, cap_lookup)>>,
             a.tcb, cap_index(cap_lookup, a.tcb))
      [] a.variant = "TcbSetSpace" ->
           ReportArm(
             <<fmt_field_cap("fault_ep", a.fault_ep, cap_lookup),
               fmt_field_cap("cspace_root", a.cspace_root, cap_lookup),
               fmt_field("cspace_root_data", a.cspace_root_data),
               fmt_field_cap("vspace_root", a.vspace_root, cap_lookup),
               fmt_field("vspace_root_data", a.vspace_root_data)>>,
             a.tcb, cap_index(cap_lookup, a.tcb))
      [] a.variant = "TcbSetIpcBuffer" ->
           ReportArm(
             <<fmt_field_hex("buffer", a.buffer),
               fmt_field_cap("buffer_frame", a.buffer_frame, cap_lookup)>>,
             a.tcb, cap_index(cap_lookup, a.tcb))
      [] a.variant = "TcbResume" ->
           ReportArm(<<>>, a.tcb, cap_index(cap_lookup, a.tcb))
      [] a.variant = "TcbWriteRegisters" ->
           report_write_registers(a, cap_lookup)
      [] a.variant = "TcbBindNotification" ->
           ReportArm(
             <<fmt_field_cap("notification", a.notification, cap_lookup)>>,
             a.tcb, cap_index(cap_lookup, a.tcb))
      [] a.variant = "AsidPoolAssign" ->
           ReportArm(
             <<fmt_field_cap("vspace", a.vspace, cap_lookup)>>,
             a.asid_pool, cap_index(cap_lookup, a.asid_pool))
      [] a.variant = "IrqControlGetTrigger" ->
           ReportArm(
             <<fmt_field("irq", a.irq),
               fmt_field("trigger", IrqTrigger_as_u64(a.trigger)),
               fmt_field_cap("dest_root", a.dest_root, cap_lookup),
               fmt_field("dest_index", a.dest_index),
               fmt_field("dest_depth", a.dest_depth)>>,
             a.irq_control, cap_index(cap_lookup, a.irq_control))
      [] a.variant = "IrqHandlerSetNotification" ->
           ReportArm(
             <<fmt_field_cap("notification", a.notification, cap_lookup)>>,
             a.irq_handler, cap_index(cap_lookup, a.irq_handler))
      [] a.variant = "IoPortControlIssue" ->
           report_ioport_control_issue(a, cap_lookup, overflow_checks)
      [] a.variant = "PageUpperDirectoryMap" ->
           ReportArm(
             <<fmt_field_cap("vspace", a.vspace, cap_lookup),
               fmt_field_hex("vaddr", a.vaddr),
               fmt_field("attr", a.attr)>>,
             a.page_upper_directory,
             cap_get_unwrap(cap_lookup, a.page_upper_directory))
      [] a.variant = "PageDirectoryMap" ->
           ReportArm(
             <<fmt_field_cap("vspace", a.vspace, cap_lookup),
               fmt_field_hex("vaddr", a.vaddr),
               fmt_field("attr", a.attr)>>,
             a.page_directory, cap_get_unwrap(cap_lookup, a.page_directory))
      [] a.variant = "PageTableMap" ->
           ReportArm(
             <<fmt_field_cap("vspace", a.vspace, cap_lookup),
               fmt_field_hex("vaddr", a.vaddr),
               fmt_field("attr", a.attr)>>,
             a.page_table, cap_index(cap_lookup, a.page_table))
      [] a.variant = "PageMap" ->
           ReportArm(
             <<fmt_field_cap("vspace", a.vspace, cap_lookup),
               fmt_field_hex("vaddr", a.vaddr),
               fmt_field("rights", a.rights),
               fmt_field("attr", a.attr)>>,
             a.page, cap_index(cap_lookup, a.page))
      [] a.variant = "CnodeCopy" ->
           ReportArm(
             <<fmt_field("dest_index", a.dest_index),
               fmt_field("dest_depth", a.dest_depth),
               fmt_field_cap("src_root", a.src_root, cap_lookup),
               fmt_field_cap("src_obj", a.src_obj, cap_lookup),
               fmt_field("src_depth", a.src_depth),
               fmt_field("rights", a.rights)>>,
             a.cnode, cap_index(cap_lookup, a.cnode))
      [] a.variant = "CnodeMint" ->
           ReportArm(
             <<fmt_field("dest_index", a.dest_index),
               fmt_field("dest_depth", a.dest_depth),
               fmt_field_cap("src_root", a.src_root, cap_lookup),
               fmt_field_cap("src_obj", a.src_obj, cap_lookup),
               fmt_field("src_depth", a.src_depth),
               fmt_field("rights", a.rights),
               fmt_field("badge", a.badge)>>,
             a.cnode, cap_index(cap_lookup, a.cnode))
      [] a.variant = "SchedControlConfigureFlags" ->
           ReportArm(
             <<fmt_field_cap("schedcontext", a.sched_context, cap_lookup),
               fmt_field("budget", a.budget),
               fmt_field("period", a.period),
               fmt_field("extra_refills", a.extra_refills),
               fmt_field("badge", a.badge),
               fmt_field("flags", a.flags)>>,
             a.sched_control, Ok("None"))
      [] a.variant = "ArmVcpuSetTcb" ->
           ReportArm(
             <<fmt_field_cap("tcb", a.tcb, cap_lookup)>>,
             a.vcpu, cap_index(cap_lookup, a.vcpu))

\* report_fmt: what is written to f, as the pieces of the heading line
\* (object type, method name, service address, service name), the argument
\* lines, and the count of the REPEAT line if there is one
report_fmt(self, cfg, cap_lookup, overflow_checks) ==
    LET arm == report_args(self.args, cfg, cap_lookup, overflow_checks)
        kind == object_type(self)
        method == method_name(self)
    IN  IF arm.panic # "none" THEN arm
        ELSE IF kind.panic # "none" THEN kind
        ELSE IF method.panic # "none" THEN method
        ELSE Ok([object_type |-> Unwrap(kind),
                 method_name |-> Unwrap(method),
                 service |-> LowerHex16(Unwrap(arm).service),
                 service_str |-> Unwrap(arm).service_str,
                 arg_strs |-> Unwrap(arm).arg_strs,
                 repeat |-> IF self.repeat # None
                            THEN Some(self.repeat[1].count) ELSE None])

(***************************************************************************)
(* Inputs: configurations, label tables, argument payloads, repeat counts. *)
(***************************************************************************)
\* the labels to_label can produce, by family
GenericLabelNames == {
    "UntypedRetype", "TCBSetSchedParams", "TCBSetSpace", "TCBSetIPCBuffer",
    "TCBResume", "TCBWriteRegisters", "TCBBindNotification", "IRQSetIRQHandler",
    "CNodeCopy", "CNodeMint", "SchedControlConfigureFlags"}
ArmLabelNames == {
    "ARMASIDPoolAssign", "ARMIRQIssueIRQHandlerTrigger", "ARMPageTableMap",
    "ARMPageMap", "ARMVCPUSetTCB"}
RiscvLabelNames == {
    "RISCVASIDPoolAssign", "RISCVIRQIssueIRQHandlerTrigger", "RISCVPageTableMap",
    "RISCVPageMap"}
X86LabelNames == {
    "X86ASIDPoolAssign", "X86IRQIssueIRQHandlerIOAPIC", "X86IOPortControlIssue",
    "X86PDPTMap", "X86PageDirectoryMap", "X86PageTableMap", "X86PageMap"}
UsedLabelNames ==
    GenericLabelNames \cup ArmLabelNames \cup RiscvLabelNames \cup X86LabelNames

\* a label table giving every name of `names` the number base + discriminant,
\* with the bits of `high` set on top
NumberTable(names, base, high) ==
    [n \in names |-> JU64(BitOr(U64(base + Label(n)), high))]

\* a kernel build that knows every label
FullTable == NumberTable(UsedLabelNames, 1, {})
\* the same labels under other numbers
OtherTable == NumberTable(UsedLabelNames, 200, {})
\* a kernel build for ARM: no RISC-V and no x86 labels
ArmOnlyTable == NumberTable(GenericLabelNames \cup ArmLabelNames, 1, {})
\* numbers that need more than 20 bits, still within u32
WideTable == NumberTable(UsedLabelNames, 1, {20, 31})
\* entries Invocation::new cannot use
EmptyTable == [n \in {} |-> JNull]
StringTable == [n \in UsedLabelNames |-> JString]
NegativeTable == [n \in UsedLabelNames |-> JNegInt]
FloatTable == [n \in UsedLabelNames |-> JFloat]
TooBigTable == [n \in UsedLabelNames |-> JU64({32})]

LabelTables == {
    FullTable, ArmOnlyTable, WideTable, EmptyTable, StringTable, NegativeTable,
    FloatTable, TooBigTable}

Config(arch, hypervisor, fpu, pa, xsave, labels) ==
    [arch |-> arch, hypervisor |-> hypervisor, fpu |-> fpu,
     arm_pa_size_bits |-> pa, x86_xsave_size |-> xsave,
     invocations_labels |-> labels]

\* the configurations an invocation stream is built for
BuildConfigs ==
    {Config(a, FALSE, TRUE,
            IF a = "Aarch64" THEN Some(40) ELSE None,
            IF a = "X86_64" THEN Some(832) ELSE None,
            t) : a \in Arch, t \in LabelTables}

\* every combination of the flags the object type catalogue reads
CatalogueConfigs ==
    {Config(a, h, f, pa, xs, FullTable) :
        a \in Arch, h \in BOOLEAN, f \in BOOLEAN,
        pa \in {None, Some(40), Some(44), Some(48)},
        xs \in {None, Some(831), Some(832), Some(2688)}}

NextArch(a) ==
    CASE a = "Aarch64" -> "Riscv64"
      [] a = "Riscv64" -> "X86_64"
      [] a = "X86_64" -> "Aarch64"

\* the configurations add_raw_invocation may be handed for an invocation
\* built under cfg: the same one, another architecture, another label table
EncodeConfigs(cfg) ==
    {cfg,
     [cfg EXCEPT !.arch = NextArch(cfg.arch)],
     [cfg EXCEPT !.invocations_labels = OtherTable]}

Variants == {
    "UntypedRetype", "TcbSetSchedParams", "TcbSetSpace", "TcbSetIpcBuffer",
    "TcbResume", "TcbWriteRegisters", "TcbBindNotification", "AsidPoolAssign",
    "IrqControlGetTrigger", "IrqHandlerSetNotification", "IoPortControlIssue",
    "PageUpperDirectoryMap", "PageDirectoryMap", "PageTableMap", "PageMap",
    "CnodeCopy", "CnodeMint", "SchedControlConfigureFlags", "ArmVcpuSetTcb"}

\* the value of field number i in payload family k: family 0 holds small
\* numbers, family 1 numbers with a high bit, all distinct within a payload
V(k, i) == IF k = 0 THEN U64(16 + i) ELSE BitOr(U64(4096 + i), {63 - i})

UntypedRetypeArgs(k, ot) ==
    [variant |-> "UntypedRetype", untyped |-> V(k, 1), object_type |-> ot,
     size_bits |-> V(k, 2), root |-> V(k, 3), node_index |-> V(k, 4),
     node_depth |-> V(k, 5), node_offset |-> V(k, 6), num_objects |-> V(k, 7)]

\* the RISC-V registers in the order the kernel reads them from the message
Riscv64RegsOrder == <<
    "pc", "ra", "sp", "gp",
    "s0", "s1", "s2", "s3", "s4", "s5", "s6", "s7", "s8", "s9", "s10", "s11",
    "a0", "a1", "a2", "a3", "a4", "a5", "a6", "a7",
    "t0", "t1", "t2", "t3", "t4", "t5", "t6", "tp">>

\* a Riscv64Regs value that holds a different word in every register
Riscv64RegsValue ==
    [f \in Riscv64RegsFields |->
        U64(256 + (CHOOSE i \in DOMAIN Riscv64RegsOrder :
                      Riscv64RegsOrder[i] = f))]

\* the fields of X86_64Regs in the order the struct declares them
X86_64RegsOrder == <<
    "rip", "rsp", "rflags", "rax", "rbx", "rcx", "rdx", "rsi", "rdi", "rbp",
    "r8", "r9", "r10", "r11", "r12", "r13", "r14", "r15", "fs_base",
    "gs_base">>

\* the fields of Aarch64Regs in the order the struct declares them
Aarch64RegsOrder == <<
    "pc", "sp", "spsr", "x0", "x1", "x2", "x3", "x4", "x5", "x6", "x7",
    "x8", "x16", "x17", "x18", "x29", "x30", "x9", "x10", "x11", "x12",
    "x13", "x14", "x15", "x19", "x20", "x21", "x22", "x23", "x24", "x25",
    "x26", "x27", "x28", "tpidr_el0", "tpidrro_el0">>

RegsOrder(arch) ==
    CASE arch = "Riscv64" -> Riscv64RegsOrder
      [] arch = "X86_64" -> X86_64RegsOrder
      [] arch = "Aarch64" -> Aarch64RegsOrder

\* the largest seed of a register file value
MaxSeed == 19

\* register file values of an architecture: one for every seed, holding a
\* different word in every field; the Default value, all zero; one that
\* holds u64::MAX in every field
RegisterFiles(arch) ==
    {[f \in RegsFields(arch) |->
        U64(64 * seed + (CHOOSE i \in DOMAIN RegsOrder(arch) :
                            RegsOrder(arch)[i] = f))] : seed \in 0..MaxSeed}
    \cup {[f \in RegsFields(arch) |-> U64(0)],
          [f \in RegsFields(arch) |-> 0..63]}

\* family 0: three registers; family 1: one register, every flag bit set;
\* family 2: the whole register file of a RISC-V thread; family 3: a count
\* field of seven beside two registers
TcbWriteRegistersArgs(k) ==
    [variant |-> "TcbWriteRegisters", tcb |-> V(k, 1), resume |-> (k # 1),
     arch_flags |-> CASE k = 0 -> U64(0) [] k = 1 -> U64(255) [] k = 2 -> U64(165)
                      [] k = 3 -> U64(0),
     count |-> CASE k = 0 -> U64(3) [] k = 1 -> U64(1) [] k = 2 -> U64(32)
                 [] k = 3 -> U64(7),
     regs |-> CASE k = 0 ->
                    <<<<"pc", V(k, 2)>>, <<"sp", V(k, 3)>>, <<"a0", V(k, 4)>>>>
                [] k = 1 -> <<<<"pc", V(k, 2)>>>>
                [] k = 2 -> Riscv64Regs_field_names(Riscv64RegsValue)
                [] k = 3 -> <<<<"pc", V(k, 2)>>, <<"sp", V(k, 3)>>>>]

\* the largest register list handed to a TcbWriteRegisters payload
MaxRegs == 126

RegisterCounts == {0, 1} \cup 124..MaxRegs

\* a TcbWriteRegisters payload that carries n registers
WriteRegistersOf(n) ==
    [variant |-> "TcbWriteRegisters", tcb |-> U64(17), resume |-> TRUE,
     arch_flags |-> U64(0), count |-> U64(n),
     regs |-> [i \in 1..n |-> <<"r", U64(i)>>]]

ArgsOf(variant, k) ==
    CASE variant = "UntypedRetype" -> UntypedRetypeArgs(k, "SmallPage")
      [] variant = "TcbSetSchedParams" ->
           [variant |-> variant, tcb |-> V(k, 1), authority |-> V(k, 2),
            mcp |-> V(k, 3), priority |-> V(k, 4), sched_context |-> V(k, 5),
            fault_ep |-> V(k, 6)]
      [] variant = "TcbSetSpace" ->
           [variant |-> variant, tcb |-> V(k, 1), fault_ep |-> V(k, 2),
            cspace_root |-> V(k, 3), cspace_root_data |-> V(k, 4),
            vspace_root |-> V(k, 5), vspace_root_data |-> V(k, 6)]
      [] variant = "TcbSetIpcBuffer" ->
           [variant |-> variant, tcb |-> V(k, 1), buffer |-> V(k, 2),
            buffer_frame |-> V(k, 3)]
      [] variant = "TcbResume" -> [variant |-> variant, tcb |-> V(k, 1)]
      [] variant = "TcbWriteRegisters" -> TcbWriteRegistersArgs(k)
      [] variant = "TcbBindNotification" ->
           [variant |-> variant, tcb |-> V(k, 1), notification |-> V(k, 2)]
      [] variant = "AsidPoolAssign" ->
           [variant |-> variant, asid_pool |-> V(k, 1), vspace |-> V(k, 2)]
      [] variant = "IrqControlGetTrigger" ->
           [variant |-> variant, irq_control |-> V(k, 1), irq |-> V(k, 2),
            trigger |-> IF k = 0 THEN "Level" ELSE "Edge",
            dest_root |-> V(k, 3), dest_index |-> V(k, 4),
            dest_depth |-> V(k, 5)]
      [] variant = "IrqHandlerSetNotification" ->
           [variant |-> variant, irq_handler |-> V(k, 1),
            notification |-> V(k, 2)]
      [] variant = "IoPortControlIssue" ->
           [variant |-> variant, ioport_control |-> V(k, 1),
            first_port |-> V(k, 2), last_port |-> V(k, 3),
            dest_root |-> V(k, 4), dest_index |-> V(k, 5),
            dest_depth |-> V(k, 6)]
      [] variant = "PageUpperDirectoryMap" ->
           [variant |-> variant, page_upper_directory |-> V(k, 1),
            vspace |-> V(k, 2), vaddr |-> V(k, 3), attr |-> V(k, 4)]
      [] variant = "PageDirectoryMap" ->
           [variant |-> variant, page_directory |-> V(k, 1),
            vspace |-> V(k, 2), vaddr |-> V(k, 3), attr |-> V(k, 4)]
      [] variant = "PageTableMap" ->
           [variant |-> variant, page_table |-> V(k, 1), vspace |-> V(k, 2),
            vaddr |-> V(k, 3), attr |-> V(k, 4)]
      [] variant = "PageMap" ->
           [variant |-> variant, page |-> V(k, 1), vspace |-> V(k, 2),
            vaddr |-> V(k, 3), rights |-> V(k, 4), attr |-> V(k, 5)]
      [] variant = "CnodeCopy" ->
           [variant |-> variant, cnode |-> V(k, 1), dest_index |-> V(k, 2),
            dest_depth |-> V(k, 3), src_root |-> V(k, 4), src_obj |-> V(k, 5),
            src_depth |-> V(k, 6), rights |-> V(k, 7)]
      [] variant = "CnodeMint" ->
           [variant |-> variant, cnode |-> V(k, 1), dest_index |-> V(k, 2),
            dest_depth |-> V(k, 3), src_root |-> V(k, 4), src_obj |-> V(k, 5),
            src_depth |-> V(k, 6), rights |-> V(k, 7), badge |-> V(k, 8)]
      [] variant = "SchedControlConfigureFlags" ->
           [variant |-> variant, sched_control |-> V(k, 1),
            sched_context |-> V(k, 2), budget |-> V(k, 3), period |-> V(k, 4),
            extra_refills |-> V(k, 5), badge |-> V(k, 6), flags |-> V(k, 7)]
      [] variant = "ArmVcpuSetTcb" ->
           [variant |-> variant, vcpu |-> V(k, 1), tcb |-> V(k, 2)]

\* the payloads invocations are built from
AllArgs ==
    {ArgsOf(v, 0) : v \in Variants}
    \cup {UntypedRetypeArgs(0, ot) : ot \in {"Vcpu", "VSpace", "Untyped"}}
    \cup {ArgsOf("TcbResume", 1), ArgsOf("PageMap", 1)}
    \cup {TcbWriteRegistersArgs(2), TcbWriteRegistersArgs(3)}
    \cup {WriteRegistersOf(MaxRegs)}

\* the payloads offered to repeat() for a base payload: one of the same
\* variant with other field values, and one of another variant
RepeatArgs(base) ==
    {ArgsOf(base.variant, 1),
     IF base.variant = "TcbResume" THEN ArgsOf("PageMap", 1)
     ELSE ArgsOf("TcbResume", 1)}

\* repeat counts, as u32: 0, 1, 2 and u32::MAX
Counts == {U64(0), U64(1), U64(2), 0..31}

\* the payloads of the stream specification
StreamArgs == {ArgsOf("TcbResume", 0), ArgsOf("PageMap", 0),
               UntypedRetypeArgs(0, "SmallPage")}

(***************************************************************************)
(* The life of one Invocation value: built by Invocation::new, extended by *)
(* repeat(), encoded by add_raw_invocation.  A panic ends the process.     *)
(***************************************************************************)
Init ==
    /\ config \in BuildConfigs
    /\ inv = None
    /\ data = <<>>
    /\ panic = "none"
    /\ log = <<>>
    /\ last = [op |-> "init"]

New(args) ==
    /\ panic = "none"
    /\ inv = None
    /\ LET r == new(config, args)
       IN  /\ panic' = r.panic
           /\ inv' = IF r.panic = "none" THEN Some(Unwrap(r)) ELSE None
    /\ last' = [op |-> "new", args |-> args]
    /\ UNCHANGED <<config, data, log>>

Repeat(count, repeat_args) ==
    /\ panic = "none"
    /\ inv # None
    /\ LET r == repeat(inv[1], count, repeat_args)
       IN  /\ panic' = r.panic
           /\ inv' = IF r.panic = "none" THEN Some(Unwrap(r)) ELSE inv
    /\ last' = [op |-> "repeat", count |-> count, args |-> repeat_args,
                had_repeat |-> inv[1].repeat # None,
                after_repeat |-> last.op = "repeat"]
    /\ UNCHANGED <<config, data, log>>

\* one add_raw_invocation call; `keep` tells whether the Invocation value
\* lives on after the call or is dropped by its owner
AddRawInvocation(cfg, keep) ==
    /\ panic = "none"
    /\ inv # None
    /\ LET r == add_raw_invocation(inv[1], cfg, data)
       IN  /\ data' = r.data
           /\ panic' = r.panic
           /\ log' = IF r.panic = "none"
                     THEN Append(log, [inv |-> inv[1], cfg |-> cfg,
                                       start |-> Len(data),
                                       end |-> Len(r.data)])
                     ELSE log
           /\ inv' = IF r.panic = "none" /\ ~keep THEN None ELSE inv
    /\ last' = [op |-> "add_raw_invocation", cfg |-> cfg, start |-> Len(data),
                after |-> last.op,
                after_count |-> IF last.op = "repeat" THEN last.count ELSE {}]
    /\ UNCHANGED config

Next ==
    \/ \E args \in AllArgs : New(args)
    \/ /\ inv # None
       /\ log = <<>>
       /\ \E count \in Counts : \E repeat_args \in RepeatArgs(inv[1].args) :
             Repeat(count, repeat_args)
    \/ \E cfg \in EncodeConfigs(config) :
          Len(log) < MaxEncodes /\ AddRawInvocation(cfg, TRUE)

Spec == Init /\ [][Next]_vars

(***************************************************************************)
(* A stream: Invocation values built and encoded one after the other into  *)
(* the same buffer.                                                        *)
(***************************************************************************)
InitStream ==
    /\ config \in {c \in BuildConfigs : c.invocations_labels = FullTable}
    /\ inv = None
    /\ data = <<>>
    /\ panic = "none"
    /\ log = <<>>
    /\ last = [op |-> "init"]

NextStream ==
    \/ \E args \in StreamArgs : Len(log) < MaxCalls /\ New(args)
    \/ /\ inv # None
       /\ \E count \in {U64(1), U64(2)} :
             Repeat(count, ArgsOf(inv[1].args.variant, 1))
    \/ \E cfg \in {config, [config EXCEPT !.arch = NextArch(config.arch)]} :
          AddRawInvocation(cfg, FALSE)

SpecStream == InitStream /\ [][NextStream]_vars

(***************************************************************************)
(* The object type catalogue, queried under every flag combination.        *)
(***************************************************************************)
InitCatalogue ==
    /\ config \in CatalogueConfigs
    /\ inv = None
    /\ data = <<>>
    /\ panic = "none"
    /\ log = <<>>
    /\ last = [op |-> "init"]

FixedSizeBits(kind) ==
    /\ last.op = "init"
    /\ LET r == fixed_size_bits(kind, config)
       IN  /\ last' = [op |-> "fixed_size_bits", object_type |-> kind,
                       res |-> r]
           /\ panic' = r.panic
    /\ UNCHANGED <<config, inv, data, log>>

Value(kind) ==
    /\ last.op = "init"
    /\ LET r == value(kind, config)
       IN  /\ last' = [op |-> "value", object_type |-> kind, res |-> r]
           /\ panic' = r.panic
    /\ UNCHANGED <<config, inv, data, log>>

\* region sizes: zero, one page, one large page, sums and neighbours of
\* these, sizes with bit 63 set, u64::MAX
Sizes == {
    {}, {0}, {11}, 0..11, {12}, {13}, 12..20, 0..20, {21}, {21, 12}, {21, 11},
    {22}, {30, 21}, {63}, {63, 21}, {63, 12}, {63, 0}, 0..63}

OptimalPageSize(size) ==
    /\ last.op = "init"
    /\ LET r == optimal_page_size(config, size)
       IN  /\ last' = [op |-> "optimal_page_size", size |-> size, res |-> r]
           /\ panic' = r.panic
    /\ UNCHANGED <<config, inv, data, log>>

UserTop ==
    /\ last.op = "init"
    /\ LET r == user_top(config)
       IN  /\ last' = [op |-> "user_top", res |-> r]
           /\ panic' = r.panic
    /\ UNCHANGED <<config, inv, data, log>>

\* stack sizes: nothing, a page, the tops of the user ranges, one page and
\* one byte more than these, bit 63, u64::MAX
StackSizes == {
    {}, {0}, {12}, {13}, 12..37, {38}, {40}, {40, 12}, {44}, {44, 0}, 12..46,
    {47}, {47, 12}, {63}, 0..63}

\* the build profile decides what an overflowing subtraction does
PdMapMaxVaddr(stack_size) ==
    /\ last.op = "init"
    /\ \E overflow_checks \in BOOLEAN :
          LET r == pd_map_max_vaddr(config, stack_size, overflow_checks)
          IN  /\ last' = [op |-> "pd_map_max_vaddr", stack_size |-> stack_size,
                          overflow_checks |-> overflow_checks, res |-> r]
              /\ panic' = r.panic
    /\ UNCHANGED <<config, inv, data, log>>

FixedSize(kind) ==
    /\ last.op = "init"
    /\ LET r == fixed_size(kind, config)
       IN  /\ last' = [op |-> "fixed_size", object_type |-> kind,
                       res |-> r]
           /\ panic' = r.panic
    /\ UNCHANGED <<config, inv, data, log>>

Format(kind) ==
    /\ last.op = "init"
    /\ LET r == format(kind, config)
       IN  /\ last' = [op |-> "format", object_type |-> kind, res |-> r]
           /\ panic' = r.panic
    /\ UNCHANGED <<config, inv, data, log>>

\* the object types an UntypedRetype is built for in the catalogue
RetypedObjects == {"Vcpu", "SmallPage"}

NextCatalogue ==
    \/ UserTop
    \/ \E kind \in ObjectType : FixedSize(kind)
    \/ \E kind \in ObjectType : Format(kind)
    \/ \E kind \in RetypedObjects :
          last.op = "init" /\ New(UntypedRetypeArgs(0, kind))
    \/ Len(log) < MaxEncodes /\ AddRawInvocation(config, TRUE)
    \/ \E stack_size \in StackSizes : PdMapMaxVaddr(stack_size)
    \/ \E kind \in ObjectType : FixedSizeBits(kind)
    \/ \E kind \in ObjectType : Value(kind)
    \/ \E size \in Sizes : OptimalPageSize(size)

SpecCatalogue == InitCatalogue /\ [][NextCatalogue]_vars

(***************************************************************************)
(* The message tag, built from every field combination.                    *)
(***************************************************************************)
\* largest count handed to message_info_new for caps and extra_caps
MaxCount == 8

TagLabels == {U64(0), U64(1), U64(855), {20}, {49}, 0..49, {50}, {63}}
TagCounts == {U64(n) : n \in 0..MaxCount}
TagLengths == {U64(n) : n \in {0, 1, 85, 127, 128, 255}}

InitTag ==
    /\ config \in {c \in BuildConfigs :
                      c.invocations_labels = FullTable /\ c.arch = "Aarch64"}
    /\ inv = None
    /\ data = <<>>
    /\ panic = "none"
    /\ log = <<>>
    /\ last = [op |-> "init"]

MessageInfoNew(label, caps, extra_caps, length) ==
    /\ last.op = "init"
    /\ LET r == message_info_new(label, caps, extra_caps, length)
       IN  /\ last' = [op |-> "message_info_new", label |-> label, caps |-> caps,
                       extra_caps |-> extra_caps, length |-> length, res |-> r]
           /\ panic' = r.panic
    /\ UNCHANGED <<config, inv, data, log>>

NextTag ==
    \/ \E label \in TagLabels : \E caps \in TagCounts :
          \E extra_caps \in TagCounts : \E length \in TagLengths :
             MessageInfoNew(label, caps, extra_caps, length)
    \/ \E n \in RegisterCounts : last.op = "init" /\ New(WriteRegistersOf(n))
    \/ Len(log) < MaxEncodes /\ AddRawInvocation(config, TRUE)

SpecTag == InitTag /\ [][NextTag]_vars

(***************************************************************************)
(* The diagnostic report of an Invocation value, printed with a table of   *)
(* capability names.                                                       *)
(***************************************************************************)
\* the payloads a report is printed for: both families of every variant, the
\* payloads of the encoder, and a register write that names no register
ReportArgs ==
    AllArgs \cup {ArgsOf(v, 1) : v \in Variants} \cup {WriteRegistersOf(0)}

\* the address every payload carries as its service capability
ServiceCaps == {V(0, 1), V(1, 1)}

\* the addresses the payloads carry
PayloadCaps == {V(k, i) : k \in {0, 1}, i \in 1..8}

CapName(cap) == IF cap \in ServiceCaps THEN "service cap" ELSE "argument cap"

\* capability-name tables: one that names every address, one that names
\* none, one without the service capabilities, one with nothing else
CapTables == {
    [cap \in PayloadCaps |-> CapName(cap)],
    [cap \in {} |-> CapName(cap)],
    [cap \in PayloadCaps \ ServiceCaps |-> CapName(cap)],
    [cap \in ServiceCaps |-> CapName(cap)]}

InitReport ==
    /\ config \in {c \in BuildConfigs : c.invocations_labels = FullTable}
    /\ inv = None
    /\ data = <<>>
    /\ panic = "none"
    /\ log = <<>>
    /\ last = [op |-> "init"]

\* one report_fmt call; the build profile decides what an overflowing shift
\* or subtraction does
ReportFmt(cap_lookup, overflow_checks) ==
    /\ panic = "none"
    /\ inv # None
    /\ last.op # "report_fmt"
    /\ LET r == report_fmt(inv[1], config, cap_lookup, overflow_checks)
       IN  /\ last' = [op |-> "report_fmt", cap_lookup |-> cap_lookup,
                       overflow_checks |-> overflow_checks, res |-> r]
           /\ panic' = r.panic
    /\ UNCHANGED <<config, inv, data, log>>

NextReport ==
    \/ \E args \in ReportArgs : New(args)
    \/ /\ inv # None
       /\ last.op = "new"
       /\ \E count \in Counts : Repeat(count, ArgsOf(inv[1].args.variant, 1))
    \/ \E cap_lookup \in CapTables : \E overflow_checks \in BOOLEAN :
          ReportFmt(cap_lookup, overflow_checks)

SpecReport == InitReport /\ [][NextReport]_vars

(***************************************************************************)
(* The register files: the two accessors applied to values of the register *)
(* file of the configured architecture.                                    *)
(***************************************************************************)
InitRegisters ==
    /\ config \in {c \in BuildConfigs : c.invocations_labels = FullTable}
    /\ inv = None
    /\ data = <<>>
    /\ panic = "none"
    /\ log = <<>>
    /\ last = [op |-> "init"]

FieldNames(self) ==
    /\ last.op = "init"
    /\ last' = [op |-> "field_names", regs |-> self,
                res |-> RegsFieldNames(config.arch, self)]
    /\ UNCHANGED <<config, inv, data, panic, log>>

AsSlice(self) ==
    /\ last.op = "init"
    /\ last' = [op |-> "as_slice", regs |-> self,
                res |-> RegsAsSlice(config.arch, self)]
    /\ UNCHANGED <<config, inv, data, panic, log>>

NextRegisters ==
    \/ \E self \in RegisterFiles(config.arch) : FieldNames(self)
    \/ \E self \in RegisterFiles(config.arch) : AsSlice(self)

SpecRegisters == InitRegisters /\ [][NextRegisters]_vars

(***************************************************************************)
(* Reading the buffer back.                                                *)
(***************************************************************************)
\* the 64-bit words held by a byte sequence whose length is a multiple of 8
WordsOf(bytes) ==
    [i \in 1..(Len(bytes) \div 8) |->
        from_le_bytes(SubSeq(bytes, 8 * (i - 1) + 1, 8 * i))]

\* the bytes one logged add_raw_invocation call appended
Segment(e) == SubSeq(data, e.start + 1, e.end)

\* the tag word one logged call wrote
TagOf(e) == WordsOf(Segment(e))[1]

HasRepeat(i) == i.repeat # None
Mismatched(i) == HasRepeat(i) /\ i.args.variant # i.repeat[1].args.variant

\* a repeat count of 0 or 1
AtMostOne(count) == count \in {U64(0), U64(1)}

DiscriminantPanic ==
    "assertion failed: discriminant(args) == discriminant(repeat)"

(***************************************************************************)
(* C1.  As claimed: repeat(count, R) with count > 1 and R of another       *)
(* variant than the base fails in repeat() itself and never leaves the     *)
(* Invocation holding the mismatched descriptor.                           *)
(***************************************************************************)
C1_RepeatRejectsMismatch ==
    (/\ last.op = "repeat"
     /\ ~last.had_repeat
     /\ ~AtMostOne(last.count)
     /\ last.args.variant # inv[1].args.variant)
    => (panic # "none" /\ ~Mismatched(inv[1]))

\* C1, as the code has it: repeat() compares no variants.  On an Invocation
\* with no repeat attached, repeat(count, R) with count > 1 returns normally
\* and stores (count, R) whatever the variant of R; a mismatched descriptor
\* is detected only by add_raw_invocation, which fails on it and never
\* returns normally.
C1_MismatchDetectedByEncoder ==
    /\ (last.op = "repeat" /\ ~last.had_repeat /\ ~AtMostOne(last.count))
       => (/\ panic = "none"
           /\ inv[1].repeat = Some([count |-> last.count, args |-> last.args]))
    /\ (last.op = "add_raw_invocation" /\ Mismatched(inv[1]))
       => panic # "none"
    /\ \A i \in DOMAIN log : ~Mismatched(log[i].inv)

C1_Witness ==
    /\ last.op = "add_raw_invocation"
    /\ inv # None
    /\ Mismatched(inv[1])
    /\ panic = DiscriminantPanic

(***************************************************************************)
(* C2.  For every invocation encoded with a repeat of count N > 1, under   *)
(* any u32 label, bits 32-63 of the tag word equal N - 1, and the call     *)
(* wrote one tag word, the base group and the repeat group.                *)
(***************************************************************************)
C2_TagHighHalfIsCountMinusOne ==
    \A i \in DOMAIN log :
        HasRepeat(log[i].inv) =>
            LET g == Unwrap(get_args(log[i].inv.args, log[i].cfg))
                r == Unwrap(get_args(log[i].inv.repeat[1].args, log[i].cfg))
            IN  /\ Len(Segment(log[i])) =
                     8 * (1 + (1 + Len(g.extra_caps) + Len(g.args))
                            + (1 + Len(r.extra_caps) + Len(r.args)))
                /\ Shr(TagOf(log[i]), 32) = Dec(log[i].inv.repeat[1].count)

(***************************************************************************)
(* C3.  repeat(count, args) with count <= 1 followed by encoding gives the *)
(* bytes that encoding the invocation as Invocation::new built it gives:   *)
(* no repeat group, no repeat count in the tag.                            *)
(***************************************************************************)
C3_DegenerateRepeatIsNoRepeat ==
    (/\ last.op = "add_raw_invocation"
     /\ last.after = "repeat"
     /\ AtMostOne(last.after_count)
     /\ panic = "none")
    => LET fresh == Unwrap(new(config, inv[1].args))
           g == Unwrap(get_args(inv[1].args, last.cfg))
       IN  /\ SubSeq(data, last.start + 1, Len(data)) =
                add_raw_invocation(fresh, last.cfg, <<>>).data
           /\ ~HasRepeat(fresh)
           /\ Len(data) - last.start = 8 * (2 + Len(g.extra_caps) + Len(g.args))

C3_Witness ==
    /\ last.op = "add_raw_invocation"
    /\ last.after = "repeat"
    /\ last.after_count = U64(1)
    /\ panic = "none"
    /\ Len(data) = 8 * 5

(***************************************************************************)
(* C4.  message_info_new(label, 0, extra_caps, length) round-trips for all *)
(* label < 2^50, extra_caps < 8, length < 128: w mod 128 = length,         *)
(* (w >> 7) mod 8 = extra_caps, w >> 12 = label.                           *)
(***************************************************************************)
C4_MessageInfoRoundTrip ==
    (/\ last.op = "message_info_new"
     /\ LtPow2(last.label, 50)
     /\ last.caps = U64(0)
     /\ LtPow2(last.extra_caps, 3)
     /\ LtPow2(last.length, 7))
    => /\ last.res.panic = "none"
       /\ LET w == Unwrap(last.res)
          IN  /\ ModPow2(w, 7) = last.length
              /\ ModPow2(Shr(w, 7), 3) = last.extra_caps
              /\ Shr(w, 12) = last.label

C4_Witness ==
    /\ last.op = "message_info_new"
    /\ last.label = 0..49
    /\ last.caps = U64(0)
    /\ last.extra_caps = U64(7)
    /\ last.length = U64(127)
    /\ last.res.panic = "none"

(***************************************************************************)
(* C5.  Every add_raw_invocation call that returns appended the words tag, *)
(* service, extra caps in get_args order, plain arguments in get_args      *)
(* order (2 + e + a words without a repeat), followed, with a repeat, by   *)
(* the repeat's service, extra caps and arguments and no second tag; the   *)
(* tag's extra-caps field is e and its length field is a.                  *)
(***************************************************************************)
C5_WordSequence ==
    \A i \in DOMAIN log :
        LET e == log[i]
            g == Unwrap(get_args(e.inv.args, e.cfg))
            words == WordsOf(Segment(e))
            base == <<g.service>> \o g.extra_caps \o g.args
            rest == IF HasRepeat(e.inv)
                    THEN LET r == Unwrap(get_args(e.inv.repeat[1].args, e.cfg))
                         IN  <<r.service>> \o r.extra_caps \o r.args
                    ELSE <<>>
        IN  /\ Len(Segment(e)) = 8 * Len(words)
            /\ Len(words) = 1 + Len(base) + Len(rest)
            /\ Len(base) = 1 + Len(g.extra_caps) + Len(g.args)
            /\ Tail(words) = base \o rest
            /\ ModPow2(Shr(words[1], 7), 3) = U64(Len(g.extra_caps))
            /\ ModPow2(words[1], 7) = U64(Len(g.args))

C5_Witness ==
    /\ Len(log) = 1
    /\ panic = "none"
    /\ log[1].inv.args.variant = "TcbSetSchedParams"
    /\ HasRepeat(log[1].inv)
    /\ Len(data) = 8 * (1 + 6 + 6)

(***************************************************************************)
(* C6.  After any sequence of add_raw_invocation calls the buffer is the   *)
(* concatenation, in call order, of what each invocation gives when        *)
(* encoded alone into an empty buffer, and every step leaves the bytes     *)
(* already in the buffer where they are.                                   *)
(***************************************************************************)
RECURSIVE AloneConcat(_)
AloneConcat(l) ==
    IF l = <<>> THEN <<>>
    ELSE add_raw_invocation(Head(l).inv, Head(l).cfg, <<>>).data
         \o AloneConcat(Tail(l))

StreamIsConcatenation == data = AloneConcat(log)

AppendOnly ==
    Len(data') >= Len(data) /\ SubSeq(data', 1, Len(data)) = data

C6_AppendOnlyStream == [](StreamIsConcatenation) /\ [][AppendOnly]_vars

C6_Witness ==
    /\ Len(log) = 2
    /\ log[1].inv # log[2].inv
    /\ HasRepeat(log[2].inv)
    /\ log[2].start = Len(data) - 8 * 11

(***************************************************************************)
(* C7.  As claimed: fixed_size_bits returns None for exactly Untyped and   *)
(* CNode, and Some(bits) for every other object type on which it returns.  *)
(***************************************************************************)
C7_NoneOnlyUntypedAndCNode ==
    (last.op = "fixed_size_bits" /\ last.res.panic = "none")
    => (Unwrap(last.res) = None <=> last.object_type \in {"Untyped", "CNode"})

\* C7, as the code has it: fixed_size_bits returns None for exactly three
\* object types, Untyped, CNode and SchedContext, and Some(bits) for every
\* other object type in every configuration on which it returns.
C7_NoneOnlyVariableSized ==
    (last.op = "fixed_size_bits" /\ last.res.panic = "none")
    => (Unwrap(last.res) = None
          <=> last.object_type \in {"Untyped", "CNode", "SchedContext"})

C7_Witness ==
    /\ last.op = "fixed_size_bits"
    /\ last.object_type = "SchedContext"
    /\ last.res = Ok(None)

(***************************************************************************)
(* C8.  The label in bits 12 and up of every tag written is the number the *)
(* label table of the configuration given to Invocation::new holds under   *)
(* the name of the label chosen there, whatever configuration the encoder  *)
(* was handed; what a repeat adds to the tag is its count - 1 at bit 32.   *)
(* The object-type word of UntypedRetype follows the encoder's             *)
(* configuration.                                                          *)
(***************************************************************************)
C8_LabelFromConstructionConfig ==
    \A i \in DOMAIN log :
        LET e == log[i]
            name == to_string(to_label(e.inv.args, config))
            number == config.invocations_labels[name].val
        IN  /\ to_string(e.inv.label) = name
            /\ Shr(TagOf(e), 12) =
                 IF HasRepeat(e.inv)
                 THEN BitOr(number, Shl(Dec(e.inv.repeat[1].count), 20))
                 ELSE number
            /\ e.inv.args.variant = "UntypedRetype" =>
                 WordsOf(Segment(e))[4] =
                     U64(Unwrap(value(e.inv.args.object_type, e.cfg)))

C8_Witness ==
    /\ Len(log) = 1
    /\ log[1].cfg.invocations_labels # config.invocations_labels
    /\ log[1].inv.args.variant = "PageMap"
    /\ Shr(TagOf(log[1]), 12) = config.invocations_labels["ARMPageMap"].val

(***************************************************************************)
(* C9.  Invocation::new fails and yields no Invocation exactly when the    *)
(* label table has no entry under the resolved name, or one that is not a  *)
(* number, not an unsigned integer, or not below 2^32.                     *)
(***************************************************************************)
C9_NewFailsOnBadEntry ==
    last.op = "new" =>
        LET name == to_string(to_label(last.args, config))
            table == config.invocations_labels
            usable == /\ name \in DOMAIN table
                      /\ table[name].type = "Number"
                      /\ table[name].num = "PosInt"
                      /\ LtPow2(table[name].val, 32)
        IN  /\ usable => (panic = "none" /\ inv # None
                          /\ inv[1].label_raw = table[name].val)
            /\ ~usable => (panic # "none" /\ inv = None)

C9_Witness ==
    /\ last.op = "new"
    /\ config.invocations_labels = TooBigTable
    /\ panic = "Invocation is not u32"
    /\ inv = None

(***************************************************************************)
(* C10.  to_label depends on the variant and the architecture only, and    *)
(* gives the label the table below names.                                  *)
(***************************************************************************)
ExpectedLabelName(variant, arch) ==
    CASE variant = "UntypedRetype" -> "UntypedRetype"
      [] variant = "TcbSetSchedParams" -> "TCBSetSchedParams"
      [] variant = "TcbSetSpace" -> "TCBSetSpace"
      [] variant = "TcbSetIpcBuffer" -> "TCBSetIPCBuffer"
      [] variant = "TcbResume" -> "TCBResume"
      [] variant = "TcbWriteRegisters" -> "TCBWriteRegisters"
      [] variant = "TcbBindNotification" -> "TCBBindNotification"
      [] variant = "IrqHandlerSetNotification" -> "IRQSetIRQHandler"
      [] variant = "IoPortControlIssue" -> "X86IOPortControlIssue"
      [] variant = "CnodeCopy" -> "CNodeCopy"
      [] variant = "CnodeMint" -> "CNodeMint"
      [] variant = "SchedControlConfigureFlags" -> "SchedControlConfigureFlags"
      [] variant = "ArmVcpuSetTcb" -> "ARMVCPUSetTCB"
      [] variant = "AsidPoolAssign" ->
           (CASE arch = "Aarch64" -> "ARMASIDPoolAssign"
              [] arch = "Riscv64" -> "RISCVASIDPoolAssign"
              [] arch = "X86_64" -> "X86ASIDPoolAssign")
      [] variant = "IrqControlGetTrigger" ->
           (CASE arch = "Aarch64" -> "ARMIRQIssueIRQHandlerTrigger"
              [] arch = "Riscv64" -> "RISCVIRQIssueIRQHandlerTrigger"
              [] arch = "X86_64" -> "X86IRQIssueIRQHandlerIOAPIC")
      [] variant = "PageMap" ->
           (CASE arch = "Aarch64" -> "ARMPageMap"
              [] arch = "Riscv64" -> "RISCVPageMap"
              [] arch = "X86_64" -> "X86PageMap")
      [] variant \in {"PageTableMap", "PageDirectoryMap", "PageUpperDirectoryMap"} ->
           (CASE arch = "Aarch64" -> "ARMPageTableMap"
              [] arch = "Riscv64" -> "RISCVPageTableMap"
              [] arch = "X86_64" ->
                   (CASE variant = "PageTableMap" -> "X86PageTableMap"
                      [] variant = "PageDirectoryMap" -> "X86PageDirectoryMap"
                      [] variant = "PageUpperDirectoryMap" -> "X86PDPTMap"))

C10_LabelByVariantAndArch ==
    inv # None =>
        to_string(inv[1].label) =
            ExpectedLabelName(inv[1].args.variant, config.arch)

C10_Witness ==
    /\ inv # None
    /\ inv[1].args.variant = "PageDirectoryMap"
    /\ config.arch = "X86_64"
    /\ to_string(inv[1].label) = "X86PageDirectoryMap"

(***************************************************************************)
(* C11.  value(config) equals the reference table of kernel object type    *)
(* numbers for every object type and architecture, and reads no field of   *)
(* the configuration but the architecture: the same number comes back      *)
(* under every combination of the hypervisor and FPU flags, of the         *)
(* physical-address width and of the save-area size.  (The table has no    *)
(* entry for Vcpu on RISC-V.)                                              *)
(***************************************************************************)
\* the reference table: <<ARM, RISC-V, x86>> for each object type
ReferenceTable == [
    Untyped |-> <<0, 0, 0>>, Tcb |-> <<1, 1, 1>>, Endpoint |-> <<2, 2, 2>>,
    Notification |-> <<3, 3, 3>>, CNode |-> <<4, 4, 4>>,
    SchedContext |-> <<5, 5, 5>>, Reply |-> <<6, 6, 6>>,
    HugePage |-> <<7, 7, 9>>, VSpace |-> <<8, 10, 8>>,
    SmallPage |-> <<9, 8, 10>>, LargePage |-> <<10, 9, 11>>,
    PageTable |-> <<11, 10, 12>>, Vcpu |-> <<12, -1, 15>>,
    PdPt |-> <<7, 7, 7>>, Pml4 |-> <<8, 8, 8>>,
    PageDirectory |-> <<13, 13, 13>>, IOPageTable |-> <<14, 14, 14>>,
    EptPml4 |-> <<16, 16, 16>>, EptPdPt |-> <<17, 17, 17>>,
    EptPageDirectory |-> <<18, 18, 18>>, EptPageTable |-> <<19, 19, 19>>]

ArchColumn(a) ==
    CASE a = "Aarch64" -> 1 [] a = "Riscv64" -> 2 [] a = "X86_64" -> 3

C11_ValueMatchesReferenceTable ==
    (last.op = "value"
        /\ ~(last.object_type = "Vcpu" /\ config.arch = "Riscv64"))
    => last.res = Ok(ReferenceTable[last.object_type][ArchColumn(config.arch)])

C11_Witness ==
    /\ last.op = "value"
    /\ last.object_type = "SmallPage"
    /\ config.arch = "Riscv64"
    /\ config.hypervisor
    /\ ~config.fpu
    /\ last.res = Ok(8)

(***************************************************************************)
(* C12.  An encoded UntypedRetype is, after the tag: the service           *)
(* capability untyped, the extra capability root, then the number of the   *)
(* object type under the configuration handed to the encoder, then         *)
(* size_bits, node_index, node_depth, node_offset, num_objects.  For       *)
(* SmallPage the number is 9 on ARM, 8 on RISC-V, 10 on x86.               *)
(***************************************************************************)
C12_UntypedRetypeWords ==
    \A i \in DOMAIN log :
        LET e == log[i]
            a == e.inv.args
            w == WordsOf(Segment(e))
        IN  a.variant = "UntypedRetype" =>
              /\ Len(w) >= 9
              /\ SubSeq(w, 2, 9) =
                    <<a.untyped, a.root,
                      U64(ReferenceTable[a.object_type][ArchColumn(e.cfg.arch)]),
                      a.size_bits, a.node_index, a.node_depth, a.node_offset,
                      a.num_objects>>
              /\ a.object_type = "SmallPage" =>
                    w[4] = CASE e.cfg.arch = "Aarch64" -> U64(9)
                             [] e.cfg.arch = "Riscv64" -> U64(8)
                             [] e.cfg.arch = "X86_64" -> U64(10)

C12_Witness ==
    \E i \in DOMAIN log :
        /\ log[i].inv.args.variant = "UntypedRetype"
        /\ log[i].inv.args.object_type = "SmallPage"
        /\ config.arch = "X86_64"
        /\ log[i].cfg.arch = "Aarch64"
        /\ WordsOf(Segment(log[i]))[4] = U64(9)

(***************************************************************************)
(* C13.  As claimed: a TcbWriteRegisters invocation encoded on the RISC-V  *)
(* configuration carries exactly 32 register words after the flags word    *)
(* and the count word, whatever list the caller placed in regs.            *)
(***************************************************************************)
\* the words of the base group of a TcbWriteRegisters entry that follow the
\* flags word and the count word
RegisterWords(e) ==
    LET w == WordsOf(Segment(e))
        last_word == IF HasRepeat(e.inv)
                     THEN Len(w) - (3 + Len(e.inv.repeat[1].args.regs))
                     ELSE Len(w)
    IN  SubSeq(w, 5, last_word)

C13_AlwaysThirtyTwoRegisterWords ==
    \A i \in DOMAIN log :
        (log[i].inv.args.variant = "TcbWriteRegisters"
            /\ log[i].cfg.arch = "Riscv64")
        => Len(RegisterWords(log[i])) = 32

\* C13, as the code has it: the encoder emits one word for every entry of
\* regs, in the order of regs, on every architecture; when regs is what
\* Riscv64Regs::field_names() returns, these are 32 words in the order pc,
\* ra, sp, gp, s0..s11, a0..a7, t0..t6, tp.
C13_RegisterWordsFollowRegs ==
    \A i \in DOMAIN log :
        LET e == log[i]
            a == e.inv.args
            w == WordsOf(Segment(e))
            r == Riscv64RegsValue
        IN  a.variant = "TcbWriteRegisters" =>
              /\ Len(w) >= 4 + Len(a.regs)
              /\ SubSeq(w, 5, 4 + Len(a.regs)) =
                    [j \in 1..Len(a.regs) |-> a.regs[j][2]]
              /\ a.regs = Riscv64Regs_field_names(r) =>
                    SubSeq(w, 5, 36) = [j \in 1..32 |-> r[Riscv64RegsOrder[j]]]

C13_Witness ==
    \E i \in DOMAIN log :
        /\ log[i].inv.args = TcbWriteRegistersArgs(2)
        /\ log[i].cfg.arch = "Riscv64"
        /\ Len(WordsOf(Segment(log[i]))) = 36
        /\ WordsOf(Segment(log[i]))[7] = Riscv64RegsValue["sp"]

C15_TagBoundsRefused ==
    /\ last.op = "message_info_new" =>
          (last.res.panic = "none" <=>
              /\ LtPow2(last.label, 50)
              /\ LtPow2(last.caps, 3)
              /\ LtPow2(last.extra_caps, 3)
              /\ LtPow2(last.length, 7))
    /\ (last.op = "add_raw_invocation" /\ inv # None) =>
          LET g == Unwrap(get_args(inv[1].args, last.cfg))
          IN  (Len(g.args) >= 128 \/ Len(g.extra_caps) >= 8)
              <=> (panic # "none" /\ Len(data) = last.start)
    /\ \A i \in DOMAIN log :
          LET g == Unwrap(get_args(log[i].inv.args, log[i].cfg))
              tag == WordsOf(Segment(log[i]))[1]
          IN  /\ Len(g.args) < 128
              /\ Len(g.extra_caps) < 8
              /\ SumBits(tag \cap 0..6) = Len(g.args)
              /\ SumBits(tag \cap 7..9) = 128 * Len(g.extra_caps)

C15_Witness ==
    /\ last.op = "add_raw_invocation"
    /\ inv # None
    /\ Len(inv[1].args.regs) = 126
    /\ panic = "assertion failed: length < 0x80"
    /\ data = <<>>

(***************************************************************************)
(* C16.  As claimed: in a sequence of repeat() calls on one Invocation,    *)
(* every call after the first fails.                                       *)
(***************************************************************************)
C16_EveryLaterRepeatFails ==
    (last.op = "repeat" /\ last.after_repeat) => panic # "none"

\* C16, as the code has it: repeat() fails exactly when the Invocation
\* already stores a descriptor, so a stored descriptor is never replaced
\* and no second one is accepted; a call with count 0 or 1 stores nothing
\* and the calls that follow it are accepted like a first call.
SecondAttachmentRefused ==
    last.op = "repeat" =>
        (panic = "assertion failed: self.repeat.is_none()" <=> last.had_repeat)

StoredRepeatStays ==
    (inv # None /\ inv[1].repeat # None) => inv' = inv

C16_StoredRepeatNeverReplaced ==
    [](SecondAttachmentRefused) /\ [][StoredRepeatStays]_vars

C16_Witness ==
    /\ last.op = "repeat"
    /\ last.after_repeat
    /\ last.had_repeat
    /\ ~AtMostOne(last.count)
    /\ panic = "assertion failed: self.repeat.is_none()"
    /\ inv[1].repeat[1].args # last.args

(***************************************************************************)
(* C17.  optimal_page_size(size) is 0x200000 for every multiple of         *)
(* 0x200000, 0x1000 for every multiple of 0x1000 that is not a multiple of *)
(* 0x200000, and fails for every other size: it is the largest page size   *)
(* that divides size.  Sizes below 2^31 are compared as numbers, with the  *)
(* remainders of 4096 and 2097152; larger ones by their low bits.          *)
(***************************************************************************)
\* size is a multiple of 2^k
MultipleOf(size, k) ==
    IF size \subseteq 0..30
    THEN SumBits(size) % Pow2(k) = 0
    ELSE size \cap 0..(k - 1) = {}

C17_LargestDividingPageSize ==
    last.op = "optimal_page_size" =>
        LET size == last.size
        IN  /\ (size \subseteq 0..30 /\ SumBits(size) % 2097152 = 0)
                  => last.res = Ok(U64(2097152))
            /\ (size \subseteq 0..30 /\ SumBits(size) % 4096 = 0
                    /\ SumBits(size) % 2097152 # 0)
                  => last.res = Ok(U64(4096))
            /\ MultipleOf(size, 21) => last.res = Ok({21})
            /\ (MultipleOf(size, 12) /\ ~MultipleOf(size, 21))
                  => last.res = Ok({12})
            /\ ~MultipleOf(size, 12)
                  => (last.res.panic # "none" /\ panic # "none")
            /\ last.res.panic = "none" =>
                  \A i \in DOMAIN page_sizes(config) :
                      LET k == CHOOSE b \in page_sizes(config)[i] : TRUE
                      IN  MultipleOf(size, k)
                            => \A b \in Unwrap(last.res) : b >= k

C17_Witness ==
    /\ last.op = "optimal_page_size"
    /\ last.size = {30, 21}
    /\ last.res = Ok({21})

(***************************************************************************)
(* C18.  user_top() is, on ARM with the hypervisor flag, 2^40 for a        *)
(* physical-address width of 40, 2^44 for 44 and a failure for every other *)
(* or absent width; on ARM without the flag 2^47 whatever the width; on    *)
(* RISC-V 0x3ffffff000; on x86 0x7ffffffff000.  Every value returned is a  *)
(* multiple of 4096.                                                       *)
(***************************************************************************)
\* the word written as a sequence of hexadecimal digits, first digit highest
HexWord(digits) ==
    UNION {{4 * (Len(digits) - i) + b : b \in U64(digits[i])} :
              i \in DOMAIN digits}

C18_UserTopTable ==
    last.op = "user_top" =>
        /\ last.res =
              CASE config.arch = "Aarch64" /\ config.hypervisor ->
                     (CASE config.arm_pa_size_bits = Some(40) -> Ok({40})
                        [] config.arm_pa_size_bits = Some(44) -> Ok({44})
                        [] config.arm_pa_size_bits = None ->
                             Panic("called Option::unwrap() on a None value")
                        [] OTHER ->
                             Panic("Unknown ARM physical address size bits"))
                [] config.arch = "Aarch64" /\ ~config.hypervisor -> Ok({47})
                [] config.arch = "Riscv64" ->
                     Ok(HexWord(<<3, 15, 15, 15, 15, 15, 15, 0, 0, 0>>))
                [] config.arch = "X86_64" ->
                     Ok(HexWord(<<7, 15, 15, 15, 15, 15, 15, 15, 15, 0, 0, 0>>))
        /\ panic = last.res.panic
        /\ last.res.panic = "none" => Unwrap(last.res) \cap 0..11 = {}

C18_Witness ==
    /\ last.op = "user_top"
    /\ config.arch = "Aarch64"
    /\ config.hypervisor
    /\ config.arm_pa_size_bits = Some(44)
    /\ last.res = Ok({44})

(***************************************************************************)
(* C19.  Whenever pd_map_max_vaddr(stack_size) returns, its result is not  *)
(* above user_top() and lies stack_size below it: no stack size, however   *)
(* large, gives a bound that wrapped around.                               *)
(***************************************************************************)
C19_MaxVaddrNeverAboveUserTop ==
    (last.op = "pd_map_max_vaddr" /\ last.res.panic = "none")
    => LET top == Unwrap(user_top(config))
           bound == Unwrap(last.res)
       IN  /\ ~Less(top, bound)
           /\ WrappingSub(top, bound) = last.stack_size

\* what holds of the code: the bound is right for every stack size up to
\* user_top(), and a larger one either panics or wraps, as the build decides
C19_MaxVaddrWithinRange ==
    (last.op = "pd_map_max_vaddr" /\ user_top(config).panic = "none")
    => LET top == Unwrap(user_top(config))
       IN  IF Less(top, last.stack_size)
           THEN IF last.overflow_checks
                THEN panic = "attempt to subtract with overflow"
                ELSE /\ panic = "none"
                     /\ Less(top, Unwrap(last.res))
           ELSE /\ panic = "none"
                /\ ~Less(top, Unwrap(last.res))
                /\ WrappingSub(top, Unwrap(last.res)) = last.stack_size

(***************************************************************************)
(* C20.  fixed_size_bits(Tcb) is 11 on ARM under every flag combination;   *)
(* on RISC-V 11 with the FPU flag and 10 without; on x86 12 when the       *)
(* save-area size is present and at least 832, 11 when it is smaller or    *)
(* absent (831 gives 11, 832 gives 12).                                    *)
(***************************************************************************)
C20_TcbSizeBits ==
    (last.op = "fixed_size_bits" /\ last.object_type = "Tcb")
    => /\ config.arch = "Aarch64" => last.res = Ok(Some(11))
       /\ (config.arch = "Riscv64" /\ config.fpu) => last.res = Ok(Some(11))
       /\ (config.arch = "Riscv64" /\ ~config.fpu) => last.res = Ok(Some(10))
       /\ (config.arch = "X86_64" /\ config.x86_xsave_size = None)
             => last.res = Ok(Some(11))
       /\ (config.arch = "X86_64" /\ config.x86_xsave_size # None)
             => last.res = IF config.x86_xsave_size[1] < 832
                           THEN Ok(Some(11)) ELSE Ok(Some(12))
       /\ (config.arch = "X86_64" /\ config.x86_xsave_size = Some(831))
             => last.res = Ok(Some(11))
       /\ (config.arch = "X86_64" /\ config.x86_xsave_size = Some(832))
             => last.res = Ok(Some(12))

C20_Witness ==
    /\ last.op = "fixed_size_bits"
    /\ last.object_type = "Tcb"
    /\ config.arch = "X86_64"
    /\ config.x86_xsave_size = Some(832)
    /\ ~config.fpu
    /\ last.res = Ok(Some(12))

(***************************************************************************)
(* C21.  As claimed: fixed_size_bits(VSpace) is 13 exactly in the          *)
(* configurations where user_top() is smallest, no configuration having a  *)
(* lower user_top() than the one with the 13-bit VSpace.                   *)
(***************************************************************************)
\* user_top() of cfg is not above user_top() of any configuration on which
\* it returns
SmallestUserTop(cfg) ==
    \A other \in CatalogueConfigs :
        user_top(other).panic = "none"
            => ~Less(Unwrap(user_top(other)), Unwrap(user_top(cfg)))

C21_VSpaceGrowsWhereUserTopSmallest ==
    (last.op = "fixed_size_bits" /\ last.object_type = "VSpace"
        /\ last.res.panic = "none")
    => (last.res = Ok(Some(13)) <=> SmallestUserTop(config))

\* C21, as the code has it: fixed_size_bits(VSpace) is 12 on ARM with the
\* hypervisor flag and a 44-bit width, 13 with the flag and a 40-bit width,
\* a failure with the flag and any other or absent width, 12 everywhere
\* else; it is 13 exactly where user_top() is 2^40, which is the smallest
\* user_top() of the ARM configurations but not of all configurations
\* (on RISC-V user_top() is lower and the VSpace has 12 bits).
C21_VSpaceSizeBits ==
    (last.op = "fixed_size_bits" /\ last.object_type = "VSpace")
    => /\ last.res =
             IF config.arch = "Aarch64" /\ config.hypervisor
             THEN CASE config.arm_pa_size_bits = Some(44) -> Ok(Some(12))
                    [] config.arm_pa_size_bits = Some(40) -> Ok(Some(13))
                    [] config.arm_pa_size_bits = None ->
                         Panic("called Option::unwrap() on a None value")
                    [] OTHER ->
                         Panic("Unexpected ARM PA size bits when determining VSpace size bits")
             ELSE Ok(Some(12))
       /\ panic = last.res.panic
       /\ last.res.panic = "none" =>
             /\ last.res = Ok(Some(13)) <=> user_top(config) = Ok({40})
             /\ config.arch = "Aarch64" => ~Less(Unwrap(user_top(config)), {40})
             /\ config.arch = "Riscv64" => Less(Unwrap(user_top(config)), {40})

C21_Witness ==
    /\ last.op = "fixed_size_bits"
    /\ last.object_type = "VSpace"
    /\ config.arch = "Aarch64"
    /\ config.hypervisor
    /\ config.arm_pa_size_bits = Some(40)
    /\ last.res = Ok(Some(13))

(***************************************************************************)
(* C22.  On a RISC-V configuration every query of the vCPU object type     *)
(* fails and none returns a defaulted value: fixed_size_bits, fixed_size,  *)
(* value and format of Vcpu panic, and so does the encoding of an          *)
(* UntypedRetype of Vcpu, which writes nothing.  On ARM the size is 12     *)
(* bits (0x1000 bytes), on x86 14 bits (0x4000 bytes).                     *)
(***************************************************************************)
CatalogueQueries == {"fixed_size_bits", "fixed_size", "value", "format"}

C22_VcpuFailsOnRiscv ==
    /\ (last.op \in CatalogueQueries /\ last.object_type = "Vcpu") =>
          /\ config.arch = "Riscv64" =>
                (last.res.panic # "none" /\ panic = last.res.panic)
          /\ (config.arch = "Aarch64" /\ last.op = "fixed_size_bits") =>
                last.res = Ok(Some(12))
          /\ (config.arch = "X86_64" /\ last.op = "fixed_size_bits") =>
                last.res = Ok(Some(14))
          /\ (config.arch = "Aarch64" /\ last.op = "fixed_size") =>
                last.res = Ok(Some(HexWord(<<1, 0, 0, 0>>)))
          /\ (config.arch = "X86_64" /\ last.op = "fixed_size") =>
                last.res = Ok(Some(HexWord(<<4, 0, 0, 0>>)))
          /\ (config.arch = "Aarch64" /\ last.op = "format") =>
                last.res = Ok(<<"         object_type          ", 12, " (",
                               "SEL4_VCPU_OBJECT", " - ", "0x", "1", "0", "0",
                               "0", ")">>)
          /\ (config.arch = "X86_64" /\ last.op = "format") =>
                last.res = Ok(<<"         object_type          ", 15, " (",
                               "SEL4_VCPU_OBJECT", " - ", "0x", "4", "0", "0",
                               "0", ")">>)
    /\ (last.op = "add_raw_invocation" /\ inv[1].args.variant = "UntypedRetype"
           /\ inv[1].args.object_type = "Vcpu" /\ last.cfg.arch = "Riscv64") =>
          /\ panic = "Unknown vCPU object type value for given kernel config"
          /\ Len(data) = last.start
    /\ \A i \in DOMAIN log :
          (log[i].inv.args.variant = "UntypedRetype"
              /\ log[i].inv.args.object_type = "Vcpu")
          => log[i].cfg.arch # "Riscv64"

C22_Witness ==
    /\ last.op = "add_raw_invocation"
    /\ inv[1].args.variant = "UntypedRetype"
    /\ inv[1].args.object_type = "Vcpu"
    /\ config.arch = "Riscv64"
    /\ panic = "Unknown vCPU object type value for given kernel config"
    /\ data = <<>>

(***************************************************************************)
(* C23: every label that Invocation::new stores is recognised by           *)
(* object_type() and by method_name(), so that a report of a value built   *)
(* by new() never ends in either "unexpected label" failure.               *)
(***************************************************************************)
UnexpectedLabel == {
    "Internal error: unexpected label when getting object type",
    "Internal error: unexpected label when getting method name"}

C23_StoredLabelsRecognised ==
    /\ inv # None =>
          /\ object_type(inv[1]).panic = "none"
          /\ method_name(inv[1]).panic = "none"
    /\ last.op = "report_fmt" => last.res.panic \notin UnexpectedLabel

C23_Witness ==
    /\ last.op = "report_fmt"
    /\ last.res.panic = "none"
    /\ config.arch = "Riscv64"
    /\ inv[1].args.variant = "PageTableMap"
    /\ to_string(inv[1].label) = "RISCVPageTableMap"
    /\ Unwrap(last.res).object_type = "Page Table"
    /\ Unwrap(last.res).method_name = "Map"

(***************************************************************************)
(* C24: for every variant, report_fmt renders the service capability as    *)
(* its address followed by the name the capability-name table holds for    *)
(* it, or by "None" when the table has no entry for that address; a        *)
(* service capability missing from the table never makes the report fail.  *)
(***************************************************************************)
\* the field of a payload that holds its service capability
ServiceField(a) ==
    CASE a.variant = "UntypedRetype" -> a.untyped
      [] a.variant \in {"TcbSetSchedParams", "TcbSetSpace", "TcbSetIpcBuffer",
                        "TcbResume", "TcbWriteRegisters",
                        "TcbBindNotification"} -> a.tcb
      [] a.variant = "AsidPoolAssign" -> a.asid_pool
      [] a.variant = "IrqControlGetTrigger" -> a.irq_control
      [] a.variant = "IrqHandlerSetNotification" -> a.irq_handler
      [] a.variant = "IoPortControlIssue" -> a.ioport_control
      [] a.variant = "PageUpperDirectoryMap" -> a.page_upper_directory
      [] a.variant = "PageDirectoryMap" -> a.page_directory
      [] a.variant = "PageTableMap" -> a.page_table
      [] a.variant = "PageMap" -> a.page
      [] a.variant \in {"CnodeCopy", "CnodeMint"} -> a.cnode
      [] a.variant = "SchedControlConfigureFlags" -> a.sched_control
      [] a.variant = "ArmVcpuSetTcb" -> a.vcpu

\* the failures of a table lookup
MissingEntry == {
    "no entry found for key",
    "called Option::unwrap() on a None value"}

C24_ServiceCapNamedOrNone ==
    last.op = "report_fmt" =>
        LET service == ServiceField(inv[1].args)
            named == service \in DOMAIN last.cap_lookup
        IN  /\ last.res.panic \notin MissingEntry
            /\ last.res.panic = "none" =>
                  /\ Unwrap(last.res).service = LowerHex16(service)
                  /\ Unwrap(last.res).service_str =
                        IF named THEN last.cap_lookup[service] ELSE "None"

(***************************************************************************)
(* C25.  As claimed: whenever add_raw_invocation fails, the output buffer  *)
(* holds exactly the bytes it held before the call.                        *)
(***************************************************************************)
FailedEncode ==
    /\ panic = "none"
    /\ panic' # "none"
    /\ last'.op = "add_raw_invocation"

C26_RepeatGroupHasShapeOfTag ==
    \A i \in DOMAIN log :
        LET e == log[i]
            w == WordsOf(Segment(e))
            length == SumBits(w[1] \cap 0..6)
            extra_caps == SumBits({b - 7 : b \in w[1] \cap 7..9})
            r == Unwrap(get_args(e.inv.repeat[1].args, e.cfg))
        IN  HasRepeat(e.inv) =>
              /\ Len(r.extra_caps) = extra_caps
              /\ Len(r.args) = length
              /\ Len(w) = 1 + 2 * (1 + extra_caps + length)

(***************************************************************************)
(* C27: in every encoded TcbWriteRegisters invocation the register-count   *)
(* word (the second plain argument) equals the number of register words    *)
(* emitted after it, and the length field of the tag equals 2 plus that    *)
(* count.                                                                  *)
(***************************************************************************)
C27_CountWordIsRegisterWordCount ==
    \A i \in DOMAIN log :
        LET e == log[i]
            w == WordsOf(Segment(e))
            emitted == Len(RegisterWords(e))
        IN  e.inv.args.variant = "TcbWriteRegisters" =>
              /\ w[4] = U64(emitted)
              /\ w[1] \cap 0..6 = U64(2 + emitted)

(***************************************************************************)
(* C28: for each of the three register files, field_names() and as_slice() *)
(* have exactly LEN entries (32 for RISC-V, 20 for x86, 36 for ARM) and    *)
(* agree position by position: the i-th value of as_slice() is the value   *)
(* paired with the i-th name of field_names(), that value is the one the   *)
(* field of that name holds, and every field is listed exactly once.       *)
(***************************************************************************)
RegisterFileLengths ==
    [Riscv64 |-> 32, X86_64 |-> 20, Aarch64 |-> 36]

C28_AccessorsAgree ==
    LET arch == config.arch
        len == RegisterFileLengths[arch]
    IN  /\ RegsLEN(arch) = len
        /\ last.op = "field_names" =>
              LET r == last.res
              IN  /\ Len(r) = len
                  /\ {r[i][1] : i \in DOMAIN r} = RegsFields(arch)
                  /\ \A i, j \in DOMAIN r : r[i][1] = r[j][1] => i = j
                  /\ \A i \in DOMAIN r : r[i][2] = last.regs[r[i][1]]
                  /\ [i \in DOMAIN r |-> r[i][2]] = RegsAsSlice(arch, last.regs)
        /\ last.op = "as_slice" =>
              LET r == last.res
                  named == RegsFieldNames(arch, last.regs)
              IN  /\ Len(r) = len
                  /\ r = [i \in DOMAIN named |-> named[i][2]]

C28_Witness ==
    /\ last.op = "as_slice"
    /\ config.arch = "Aarch64"
    /\ Len(last.res) = 36
    /\ last.res[13] = last.regs.x16
    /\ last.regs.x16 # last.regs.x9

(***************************************************************************)
(* C29: message_info_new is injective on the whole domain its assertions   *)
(* accept (label < 2^50, caps < 8, extra_caps < 8, length < 128): two      *)
(* different (label, caps, extra_caps, length) tuples never produce the    *)
(* same tag word.                                                          *)
(***************************************************************************)
C29_TagDeterminesFields ==
    (last.op = "message_info_new" /\ last.res.panic = "none") =>
        \A label \in TagLabels : \A caps \in TagCounts :
            \A extra_caps \in TagCounts : \A length \in TagLengths :
                message_info_new(label, caps, extra_caps, length) = last.res
                => <<label, caps, extra_caps, length>> =
                      <<last.label, last.caps, last.extra_caps, last.length>>
====
